---- MODULE Spec2Model ----
(***************************************************************************)
(* Network interface (NIC) resource and NIC <-> load balancer backend      *)
(* address pool association resource of the azurestack provider.           *)
(*                                                                         *)
(* The remote side is the Azure Resource Manager object of one NIC.  Each  *)
(* handler (Create/Read/Update/Delete) runs in a goroutine of its own; a   *)
(* step of the model is one blocking call of the handler (lock, Get,       *)
(* CreateOrUpdate + wait, Delete + wait) together with the local code      *)
(* that follows it up to the next blocking call or the return.             *)
(***************************************************************************)
EXTENDS Integers, Sequences, FiniteSets, TLC

(***************************************************************************)
(* Go pointers: nil is None, a pointer to v is Some(v).                    *)
(***************************************************************************)
None == <<>>
Some(v) == <<v>>
Val(o) == o[1]

\* bound of the model: how many remote calls fail (other than with not-found) in one behaviour
MaxFailures == 1

\* the goroutines; each runs one handler, at any time relative to the other
Procs == {"t1", "t2"}
NoProc == "none"

NicNames == {"nic1", "nic2"}
CfgNames == {"c1", "c2"}
\* the IP configuration the association resources of the model refer to
TargetCfgNames == {"c1"}
PoolIds == {"pA", "pB"}

\* networkInterfaceResourceName keys the lock of a NIC together with its name
\* subnet IDs an IP configuration may refer to
SubnetIds == {"subnet1"}

\* parse.SubnetID: the virtual network and the subnet a subnet ID names, or nil
SubnetID(s) ==
    IF s \in SubnetIds THEN Some([VirtualNetworkName |-> "vnet1", Name |-> s]) ELSE None

\* the names locks are taken by: NIC names, subnet names and virtual network names
\* (the lock of a name is per resource type; the names of different types differ here)
LockNames ==
    NicNames \cup { Val(SubnetID(s)).Name : s \in SubnetIds }
             \cup { Val(SubnetID(s)).VirtualNetworkName : s \in SubnetIds }

networkInterfaceResourceName == "azurestack_network_interface"

VARIABLES
    remote,   \* [NicNames -> None | Some(network.Interface)]: what ARM holds
    lock,     \* [LockNames -> Procs \cup {NoProc}]: holder of the lock of that name
    pc,       \* [Procs -> position in the running handler]
    op,       \* [Procs -> the handler the goroutine runs]
    d,        \* [Procs -> *pluginsdk.ResourceData of the handler]
    read,     \* [Procs -> None | Some(network.Interface)]: the handler's local `read`/`existing`/`iface`
    err,      \* [Procs -> the error the handler returned]
    wrote,    \* [Procs -> number of CreateOrUpdate/Delete calls the running handler issued]
    sent,     \* [Procs -> None | Some(record)]: what networkInterfaceUpdate built and sent
    log,      \* history: the handlers that returned, in order of return
    init0,    \* history: remote at the start
    managed,  \* the NICs the configuration is about: handlers are invoked for these
    failures, \* history: number of remote calls that failed so far
    given     \* [Procs -> None | Some(record)]: what d.HasChange and d.Get answer the NIC handler

vars == <<remote, lock, pc, op, d, read, err, wrote, sent, log, init0, managed, failures, given>>

(***************************************************************************)
(* Strings that are split or formatted are sequences of tokens; "|" and    *)
(* "/ipConfigurations/" are tokens of their own.                           *)
(***************************************************************************)
Bar == "|"
IpConfigurationsSegment == "/ipConfigurations/"

\* the ID as it would be with the last two arguments of line 125 exchanged
FormatAssociationId_Swapped(networkInterfaceId, ipConfigurationName, backendAddressPoolId) ==
    <<networkInterfaceId, IpConfigurationsSegment, backendAddressPoolId, Bar, ipConfigurationName>>

\* fmt.Sprintf("%s/ipConfigurations/%s|%s", networkInterfaceId, ipConfigurationName, backendAddressPoolId)
FormatAssociationId(networkInterfaceId, ipConfigurationName, backendAddressPoolId) ==
    <<networkInterfaceId, IpConfigurationsSegment, ipConfigurationName, Bar, backendAddressPoolId>>

\* strings.Split(s, "|"): the pieces between the separators, in order
RECURSIVE SplitFrom(_, _, _)
SplitFrom(s, i, cur) ==
    IF i > Len(s) THEN <<cur>>
    ELSE IF s[i] = Bar THEN <<cur>> \o SplitFrom(s, i + 1, <<>>)
    ELSE SplitFrom(s, i + 1, Append(cur, s[i]))

Split(s) == SplitFrom(s, 1, <<>>)

\* parse.NetworkInterfaceIpConfigurationID: {nic id}/ipConfigurations/{name}
NetworkInterfaceIpConfigurationID(s) ==
    IF Len(s) = 3 /\ s[1] \in NicNames /\ s[2] = IpConfigurationsSegment /\ s[3] # IpConfigurationsSegment
    THEN Some([NetworkInterfaceName |-> s[1], IpConfigurationName |-> s[3]])
    ELSE None

\* parse.NetworkInterfaceID
NetworkInterfaceID(s) ==
    IF Len(s) = 1 /\ s[1] \in NicNames THEN Some([Name |-> s[1]]) ELSE None

(***************************************************************************)
(* network.Interface values                                                *)
(***************************************************************************)
\* network.InterfaceIPConfiguration
IPConfig(name, version, subnet, primary, pools) ==
    [name  |-> name,
     props |-> Some([version |-> version, subnet |-> subnet, primary |-> primary,
                     privateIP |-> None, publicIP |-> None, alloc |-> "Dynamic",
                     pools |-> pools])]

\* the IP configuration of that name, or nil
FindNetworkInterfaceIPConfiguration(input, name) ==
    IF input = None THEN None
    ELSE LET s == Val(input)
             hits == {i \in 1..Len(s) : s[i].name = name}
         IN IF hits = {} THEN None
            ELSE Some(s[CHOOSE i \in hits : \A j \in hits : i <= j])

\* the list with the IP configuration of config's name replaced by config
updateNetworkInterfaceIPConfiguration(config, configs) ==
    IF configs = None THEN Some(<<>>)
    ELSE LET s == Val(configs)
         IN Some([i \in 1..Len(s) |-> IF s[i].name = config.name THEN config ELSE s[i]])

\* the IDs a list of network.BackendAddressPool carries (entries without ID carry none)
RECURSIVE PoolIdSeq(_)
PoolIdSeq(pools) ==
    IF pools = None THEN <<>>
    ELSE LET s == Val(pools)
         IN IF s = <<>> THEN <<>>
            ELSE (IF Head(s) = None THEN <<>> ELSE <<Val(Head(s))>>) \o PoolIdSeq(Some(Tail(s)))

SeqRange(s) == {s[i] : i \in 1..Len(s)}


(***************************************************************************)
(* The remote NIC at the start.  Azure answers Get with the whole object;  *)
(* the handlers guard against `properties`, the IP configuration list and  *)
(* an IP configuration's properties being nil, so such objects are among   *)
(* the starting states.                                                    *)
(***************************************************************************)
Interface(name, props, tags) == [id |-> Some(name), props |-> props, tags |-> tags]

InterfaceProps(dns, ipfwd, ipConfigs, nsg) ==
    [dns |-> dns, ipfwd |-> ipfwd, ipConfigs |-> ipConfigs, nsg |-> nsg]

InitPools ==
    { None,
      Some(<<Some("pA")>>),
      Some(<<Some("pA"), None, Some("pB"), Some("pA")>>) }

OtherConfig == IPConfig("c2", "IPv4", Some("subnet1"), Some(FALSE), Some(<<Some("pB")>>))

ExistingDns == Some([servers |-> Some(<<"d1">>)])

InterfaceWith(dns, ipConfigs) ==
    Some(Interface("nic1", Some(InterfaceProps(dns, Some(FALSE), ipConfigs, Some("nsg1"))), "t0"))

InitInterfaces ==
    { None,
      Some(Interface("nic1", None, "t0")),
      InterfaceWith(ExistingDns, None),
      InterfaceWith(ExistingDns, Some(<<[name |-> "c1", props |-> None], OtherConfig>>)),
      InterfaceWith(ExistingDns, Some(<<OtherConfig>>)),
      InterfaceWith(ExistingDns, Some(<<IPConfig("c1", "IPv4", Some("nosubnet"), Some(TRUE), None)>>)),
      InterfaceWith(None, Some(<<IPConfig("c1", "IPv4", Some("subnet1"), Some(TRUE), None), OtherConfig>>)) }
    \cup
    { InterfaceWith(ExistingDns,
                    Some(<<IPConfig("c1", "IPv4", Some("subnet1"), Some(TRUE), pools), OtherConfig>>)) :
        pools \in InitPools }

NoData ==
    [id |-> <<>>, name |-> "", network_interface_id |-> "",
     ip_configuration_name |-> "", backend_address_pool_id |-> ""]

\* the state after construction but for the NICs: nothing runs, no lock is held
Start ==
    /\ init0 = remote
    /\ lock = [n \in LockNames |-> NoProc]
    /\ pc = [p \in Procs |-> "idle"]
    /\ op = [p \in Procs |-> "none"]
    /\ d = [p \in Procs |-> NoData]
    /\ read = [p \in Procs |-> None]
    /\ err = [p \in Procs |-> "nil"]
    /\ wrote = [p \in Procs |-> 0]
    /\ sent = [p \in Procs |-> None]
    /\ log = <<>>
    /\ failures = 0
    /\ given = [p \in Procs |-> None]

\* one NIC is managed; it is in any of the starting states, and no other NIC exists
Init ==
    /\ managed = {"nic1"}
    /\ remote \in [NicNames -> InitInterfaces]
    /\ \A n \in NicNames \ managed : remote[n] = None
    /\ Start

(***************************************************************************)
(* The remote calls.  A Get of an existing NIC answers with it or fails;   *)
(* a Get of a missing NIC answers not-found or fails otherwise.            *)
(* CreateOrUpdate replaces the NIC by the payload when it is accepted; the *)
(* wait for completion may still report a failure.                         *)
(***************************************************************************)
MayFail == failures < MaxFailures

GetOutcomes(n) ==
    (IF remote[n] = None THEN {"notfound"} ELSE {"ok"}) \cup (IF MayFail THEN {"error"} ELSE {})

PutOutcomes == {"ok"} \cup (IF MayFail THEN {"callError", "waitError"} ELSE {})

\* the failure count after a call with this outcome
Count(outcome) == failures' = IF outcome \in {"ok", "notfound"} THEN failures ELSE failures + 1

\* what ARM holds after a CreateOrUpdate with this outcome
AfterPut(n, payload, outcome) ==
    IF outcome = "callError" THEN remote
    ELSE [remote EXCEPT ![n] = Some([payload EXCEPT !.id = Some(n)])]

(***************************************************************************)
(* Entering and leaving a handler                                          *)
(***************************************************************************)
Idle(p) == pc[p] = "idle"

\* a handler is invoked in goroutine p
Enter(p, o) ==
    /\ Idle(p)
    /\ op' = [op EXCEPT ![p] = o]
    /\ wrote' = [wrote EXCEPT ![p] = 0]
    /\ sent' = [sent EXCEPT ![p] = None]
    /\ given' = [given EXCEPT ![p] = None]

Begin(p, o, data, first) ==
    /\ Enter(p, o)
    /\ d' = [d EXCEPT ![p] = data]
    /\ pc' = [pc EXCEPT ![p] = first]
    /\ err' = [err EXCEPT ![p] = "nil"]
    /\ read' = [read EXCEPT ![p] = None]

\* the deferred locks.UnlockByName of the handler: p's lock is released
UnlockByName(p) == [n \in LockNames |-> IF lock[n] = p THEN NoProc ELSE lock[n]]

\* p holds a lock that lockingDetails.lock() took
HoldsDetails(p) == \E k \in LockNames \ NicNames : lock[k] = p

\* lockingDetails.unlock(): the subnet and virtual network locks of p are released
lockingDetailsUnlock(p) ==
    [k \in LockNames |-> IF k \notin NicNames /\ lock[k] = p THEN NoProc ELSE lock[k]]

\* handler o, entered with resource data data0, returns e and leaves the resource data as data;
\* the handler's locals are gone and its deferred calls run, the last deferred first:
\* lockingDetails.unlock() when it was deferred, and in a later step locks.UnlockByName
ReturnAs(p, o, e, data0, data) ==
    /\ err' = [err EXCEPT ![p] = e]
    /\ d' = [d EXCEPT ![p] = data]
    /\ read' = [read EXCEPT ![p] = None]
    /\ IF HoldsDetails(p)
       THEN /\ pc' = [pc EXCEPT ![p] = "unlock"]
            /\ lock' = lockingDetailsUnlock(p)
            /\ log' = log
       ELSE /\ pc' = [pc EXCEPT ![p] = "done"]
            /\ lock' = UnlockByName(p)
            /\ log' = Append(log, [proc |-> p, op |-> o, d |-> data0, err |-> e, id |-> data.id])

Return(p, e, data) == ReturnAs(p, op[p], e, d[p], data)

\* locks.ByName(name, networkInterfaceResourceName): blocks until the lock is free
ByName(p, n) ==
    /\ lock[n] = NoProc
    /\ lock' = [lock EXCEPT ![n] = p]

\* determineResourcesToLockFromIPConfiguration: the subnets and virtual networks
\* the IP configurations refer to, or an error when a subnet ID does not parse
determineResourcesToLockFromIPConfiguration(input) ==
    LET configs == IF input = None THEN <<>> ELSE Val(input)
        ids == { Val(Val(configs[i].props).subnet) :
                    i \in { j \in 1..Len(configs) :
                              /\ configs[j].props # None
                              /\ Val(configs[j].props).subnet # None } }
    IN IF \E id \in ids : SubnetID(id) = None THEN [err |-> "lockingDetails"]
       ELSE [err |-> "nil",
             subnetNamesToLock |-> { Val(SubnetID(id)).Name : id \in ids },
             virtualNetworkNamesToLock |-> { Val(SubnetID(id)).VirtualNetworkName : id \in ids }]

\* the name lockingDetails.lock() locks next: the subnets first, then the virtual networks
lockingDetailsNext(p, details) ==
    LET s == {k \in details.subnetNamesToLock : lock[k] # p}
        v == {k \in details.virtualNetworkNamesToLock : lock[k] # p}
    IN IF s # {} THEN Some(CHOOSE k \in s : TRUE)
       ELSE IF v # {} THEN Some(CHOOSE k \in v : TRUE)
       ELSE None

\* lockingDetails.lock(), one locks.ByName call of it: blocks until that lock is free
lockingDetailsLock(p, details) == ByName(p, Val(lockingDetailsNext(p, details)))

\* where the handler is after the step: lock() goes on while a name is left to lock
AfterLockingDetails(p, details, next) ==
    LET names == details.subnetNamesToLock \cup details.virtualNetworkNamesToLock
    IN IF \A k \in names : lock'[k] = p THEN next ELSE "lockDetails"


(***************************************************************************)
(* loadBalancerBackendAddressPoolAssociationRead                           *)
(***************************************************************************)
\* the Read handler as it would be without lines 222-226: a missing association is not noticed
AssociationReadResult_KeepsMissing(data, nic, outcome) ==
    LET splitId == Split(data.id)
    IN IF Len(splitId) # 2 THEN [err |-> "format", d |-> data]
       ELSE LET nicID == NetworkInterfaceIpConfigurationID(splitId[1])
            IN IF nicID = None \/ Len(splitId[2]) # 1 THEN [err |-> "parse", d |-> data]
               ELSE LET backendAddressPoolId == splitId[2][1]
                        cleared == [err |-> "nil", d |-> [data EXCEPT !.id = <<>>]]
                    IN IF outcome = "notfound" THEN cleared
                       ELSE IF outcome = "error" THEN [err |-> "retrieving", d |-> data]
                       ELSE IF nic.props = None THEN [err |-> "propertiesNil", d |-> data]
                       ELSE IF Val(nic.props).ipConfigs = None THEN [err |-> "ipConfigurationsNil", d |-> data]
                       ELSE LET c == FindNetworkInterfaceIPConfiguration(Val(nic.props).ipConfigs,
                                                                         Val(nicID).IpConfigurationName)
                            IN IF c = None THEN cleared
                               ELSE [err |-> "nil",
                                     d |-> [data EXCEPT
                                              !.backend_address_pool_id = backendAddressPoolId,
                                              !.ip_configuration_name = Val(nicID).IpConfigurationName,
                                              !.network_interface_id = Val(nic.id)]]

\* lines 160-233: the Read handler on resource data data, with the Get answering outcome for NIC object nic
AssociationReadResult(data, nic, outcome) ==
    LET splitId == Split(data.id)
    IN IF Len(splitId) # 2 THEN [err |-> "format", d |-> data]
       ELSE LET nicID == NetworkInterfaceIpConfigurationID(splitId[1])
            IN IF nicID = None \/ Len(splitId[2]) # 1 THEN [err |-> "parse", d |-> data]
               ELSE LET backendAddressPoolId == splitId[2][1]
                        cleared == [err |-> "nil", d |-> [data EXCEPT !.id = <<>>]]
                    IN IF outcome = "notfound" THEN cleared
                       ELSE IF outcome = "error" THEN [err |-> "retrieving", d |-> data]
                       ELSE IF nic.props = None THEN [err |-> "propertiesNil", d |-> data]
                       ELSE IF Val(nic.props).ipConfigs = None THEN [err |-> "ipConfigurationsNil", d |-> data]
                       ELSE LET c == FindNetworkInterfaceIPConfiguration(Val(nic.props).ipConfigs,
                                                                         Val(nicID).IpConfigurationName)
                            IN IF c = None THEN cleared
                               ELSE LET found == /\ Val(c).props # None
                                                 /\ backendAddressPoolId \in SeqRange(PoolIdSeq(Val(Val(c).props).pools))
                                    IN IF ~found THEN cleared
                                       ELSE [err |-> "nil",
                                             d |-> [data EXCEPT
                                                      !.backend_address_pool_id = backendAddressPoolId,
                                                      !.ip_configuration_name = Val(nicID).IpConfigurationName,
                                                      !.network_interface_id = Val(nic.id)]]

\* lines 240-250 (and 165-175): the ID split on "|" and its first part parsed
ParseAssociationId(id) ==
    LET splitId == Split(id)
    IN IF Len(splitId) # 2 THEN [err |-> "format"]
       ELSE LET nicID == NetworkInterfaceIpConfigurationID(splitId[1])
            IN IF nicID = None THEN [err |-> "parse"]
               ELSE IF Len(splitId[2]) # 1 THEN [err |-> "parse"]
               ELSE [err |-> "nil",
                     nic |-> Val(nicID).NetworkInterfaceName,
                     cfg |-> Val(nicID).IpConfigurationName,
                     pool |-> splitId[2][1]]

\* lbparse.LoadBalancerBackendAddressPoolID: the pool a backend address pool ID names, or nil
LoadBalancerBackendAddressPoolID(s) ==
    IF Len(s) = 1 /\ s[1] \in PoolIds THEN Some([Name |-> s[1]]) ELSE None

\* lines 30-39, the function the importer validates an ID with: the ID is split
\* on "|", splitId[0] is parsed, then splitId[1]; indexing splitId[1] of a
\* one-element slice is a run-time panic (index out of range)
ImporterValidate(id) ==
    LET splitId == Split(id)
    IN IF NetworkInterfaceIpConfigurationID(splitId[1]) = None THEN "parse"
       ELSE IF Len(splitId) < 2 THEN "panic"
       ELSE IF LoadBalancerBackendAddressPoolID(splitId[2]) = None THEN "parse"
       ELSE "nil"

\* the NIC a resource ID names (the handlers Get it by the parsed name)
NicOfId(id) ==
    LET t == ParseAssociationId(id)
    IN IF t.err # "nil" THEN CHOOSE n \in managed : TRUE ELSE t.nic

\* resource IDs a Read or Delete may be handed: those create produces, and malformed ones
AssociationIds ==
    { FormatAssociationId(n, c, b) : n \in managed, c \in TargetCfgNames, b \in PoolIds }
    \cup { <<"nic1", IpConfigurationsSegment, "c1">>,
           <<"nic1", IpConfigurationsSegment, "c1", Bar, "pA", Bar, "pB">>,
           <<"nic1", Bar, "pA">> }

StateOfId(id) == [NoData EXCEPT !.id = id]

loadBalancerBackendAddressPoolAssociationRead(p) ==
    \E id \in AssociationIds :
        LET n == NicOfId(id)
        IN \E outcome \in GetOutcomes(n) :
            /\ Count(outcome)
            /\ LET nic == IF remote[n] = None THEN None ELSE Val(remote[n])
                   r == AssociationReadResult(StateOfId(id), nic, outcome)
               IN /\ Enter(p, "AssociationRead")
                  /\ ReturnAs(p, "AssociationRead", r.err, StateOfId(id), r.d)
                  /\ UNCHANGED <<remote, init0, managed>>

\* lines 30-39: `terraform import` hands the importer an ID; the state is passed through
loadBalancerBackendAddressPoolAssociationImporter(p) ==
    \E id \in AssociationIds :
        /\ Enter(p, "AssociationImport")
        /\ ReturnAs(p, "AssociationImport", ImporterValidate(id), StateOfId(id), StateOfId(id))
        /\ UNCHANGED <<remote, init0, managed, failures>>

(***************************************************************************)
(* loadBalancerBackendAddressPoolAssociationCreateUpdate                   *)
(***************************************************************************)
\* the payload as it would be without line 133: the existing pools are not carried over
AssociationCreatePayload_OnlyNew(nic, ipConfigurationName, backendAddressPoolId) ==
    IF nic.props = None THEN [err |-> "propertiesNil"]
    ELSE LET props == Val(nic.props)
         IN IF props.ipConfigs = None THEN [err |-> "ipConfigurationsNil"]
            ELSE LET c == FindNetworkInterfaceIPConfiguration(props.ipConfigs, ipConfigurationName)
                 IN IF c = None THEN [err |-> "ipConfigurationNotFound"]
                    ELSE IF Val(c).props = None THEN [err |-> "ipConfigurationPropertiesNil"]
                    ELSE LET config == Val(c)
                             existing == PoolIdSeq(Val(config.props).pools)
                         IN IF backendAddressPoolId \in SeqRange(existing)
                            THEN [err |-> "importAsExists"]
                            ELSE LET pools == <<Some(backendAddressPoolId)>>
                                     config2 == [config EXCEPT !.props =
                                                    Some([Val(config.props) EXCEPT !.pools = Some(pools)])]
                                 IN [err |-> "nil",
                                     payload |-> [nic EXCEPT !.props = Some([props EXCEPT !.ipConfigs =
                                         updateNetworkInterfaceIPConfiguration(config2, props.ipConfigs)])]]

\* the payload as it would be without lines 129-131: an existing association is not noticed
AssociationCreatePayload_NoImportCheck(nic, ipConfigurationName, backendAddressPoolId) ==
    IF nic.props = None THEN [err |-> "propertiesNil"]
    ELSE LET props == Val(nic.props)
         IN IF props.ipConfigs = None THEN [err |-> "ipConfigurationsNil"]
            ELSE LET c == FindNetworkInterfaceIPConfiguration(props.ipConfigs, ipConfigurationName)
                 IN IF c = None THEN [err |-> "ipConfigurationNotFound"]
                    ELSE IF Val(c).props = None THEN [err |-> "ipConfigurationPropertiesNil"]
                    ELSE LET config == Val(c)
                             existing == PoolIdSeq(Val(config.props).pools)
                             pools == [i \in 1..Len(existing) |-> Some(existing[i])]
                                          \o <<Some(backendAddressPoolId)>>
                             config2 == [config EXCEPT !.props =
                                            Some([Val(config.props) EXCEPT !.pools = Some(pools)])]
                         IN [err |-> "nil",
                             payload |-> [nic EXCEPT !.props = Some([props EXCEPT !.ipConfigs =
                                 updateNetworkInterfaceIPConfiguration(config2, props.ipConfigs)])]]

\* lines 101-144: the checks on the NIC read and the payload built from it
AssociationCreatePayload(nic, ipConfigurationName, backendAddressPoolId) ==
    IF nic.props = None THEN [err |-> "propertiesNil"]
    ELSE LET props == Val(nic.props)
         IN IF props.ipConfigs = None THEN [err |-> "ipConfigurationsNil"]
            ELSE LET c == FindNetworkInterfaceIPConfiguration(props.ipConfigs, ipConfigurationName)
                 IN IF c = None THEN [err |-> "ipConfigurationNotFound"]
                    ELSE IF Val(c).props = None THEN [err |-> "ipConfigurationPropertiesNil"]
                    ELSE LET config == Val(c)
                             existing == PoolIdSeq(Val(config.props).pools)
                         IN IF backendAddressPoolId \in SeqRange(existing)
                            THEN [err |-> "importAsExists"]
                            ELSE LET pools == [i \in 1..Len(existing) |-> Some(existing[i])]
                                              \o <<Some(backendAddressPoolId)>>
                                     config2 == [config EXCEPT !.props =
                                                    Some([Val(config.props) EXCEPT !.pools = Some(pools)])]
                                 IN [err |-> "nil",
                                     payload |-> [nic EXCEPT !.props = Some([props EXCEPT !.ipConfigs =
                                         updateNetworkInterfaceIPConfiguration(config2, props.ipConfigs)])]]

AssociationConfigs ==
    { [NoData EXCEPT !.network_interface_id = n, !.ip_configuration_name = c,
                     !.backend_address_pool_id = b] :
        n \in managed, c \in TargetCfgNames, b \in PoolIds }

\* lines 73-87: the handler is entered with the configuration in d
loadBalancerBackendAddressPoolAssociationCreateUpdate_Begin(p) ==
    \E data \in AssociationConfigs :
        /\ Begin(p, "AssociationCreate", data, "lock")
        /\ UNCHANGED <<remote, lock, log, init0, managed, failures>>

\* the handler as it would be without lines 89-90: it goes on without the lock
AssociationCreate_NoLock(p) ==
    /\ pc[p] = "lock" /\ op[p] = "AssociationCreate"
    /\ pc' = [pc EXCEPT ![p] = "get"]
    /\ UNCHANGED <<remote, lock, op, d, read, err, wrote, sent, log, init0, managed, given, failures>>

\* lines 89-90
loadBalancerBackendAddressPoolAssociationCreateUpdate_Lock(p) ==
    /\ pc[p] = "lock" /\ op[p] = "AssociationCreate"
    /\ ByName(p, d[p].network_interface_id)
    /\ pc' = [pc EXCEPT ![p] = "get"]
    /\ UNCHANGED <<remote, op, d, read, err, wrote, sent, log, init0, managed, given, failures>>

\* lines 92-136: Get, the nil checks and the check that the association is not there yet
loadBalancerBackendAddressPoolAssociationCreateUpdate_Get(p) ==
    /\ pc[p] = "get" /\ op[p] = "AssociationCreate"
    /\ LET n == d[p].network_interface_id
       IN \E outcome \in GetOutcomes(n) :
            /\ Count(outcome)
            /\ IF outcome = "notfound" THEN Return(p, "notFound", d[p])
               ELSE IF outcome = "error" THEN Return(p, "retrieving", d[p])
               ELSE LET r == AssociationCreatePayload(Val(remote[n]), d[p].ip_configuration_name,
                                                      d[p].backend_address_pool_id)
                    IN IF r.err # "nil" THEN Return(p, r.err, d[p])
                       ELSE /\ read' = [read EXCEPT ![p] = remote[n]]
                            /\ pc' = [pc EXCEPT ![p] = "put"]
                            /\ UNCHANGED <<lock, d, err, log>>
    /\ UNCHANGED <<remote, op, wrote, sent, init0, managed, given>>

\* the handler as it would be if the error of WaitForCompletionRef (lines 151-153) were dropped
loadBalancerBackendAddressPoolAssociationCreateUpdate_Put_IgnoresWait(p) ==
    /\ pc[p] = "put" /\ op[p] = "AssociationCreate"
    /\ LET n == d[p].network_interface_id
           r == AssociationCreatePayload(Val(read[p]), d[p].ip_configuration_name,
                                         d[p].backend_address_pool_id)
       IN \E outcome \in PutOutcomes :
            /\ Count(outcome)
            /\ remote' = AfterPut(n, r.payload, outcome)
            /\ wrote' = [wrote EXCEPT ![p] = @ + 1]
            /\ IF outcome = "callError" THEN Return(p, "createOrUpdate", d[p])
               ELSE /\ pc' = [pc EXCEPT ![p] = "read"]
                    /\ UNCHANGED <<lock, d, read, err, log>>
    /\ UNCHANGED <<op, sent, init0, managed, given>>

\* lines 138-153: CreateOrUpdate with the NIC read, and the wait for its completion
loadBalancerBackendAddressPoolAssociationCreateUpdate_Put(p) ==
    /\ pc[p] = "put" /\ op[p] = "AssociationCreate"
    /\ LET n == d[p].network_interface_id
           r == AssociationCreatePayload(Val(read[p]), d[p].ip_configuration_name,
                                         d[p].backend_address_pool_id)
       IN \E outcome \in PutOutcomes :
            /\ Count(outcome)
            /\ remote' = AfterPut(n, r.payload, outcome)
            /\ wrote' = [wrote EXCEPT ![p] = @ + 1]
            /\ IF outcome = "callError" THEN Return(p, "createOrUpdate", d[p])
               ELSE IF outcome = "waitError" THEN Return(p, "waitForCompletion", d[p])
               ELSE /\ pc' = [pc EXCEPT ![p] = "read"]
                    /\ UNCHANGED <<lock, d, read, err, log>>
    /\ UNCHANGED <<op, sent, init0, managed, given>>

\* lines 155-157: SetId, then the Read handler on the same resource data
loadBalancerBackendAddressPoolAssociationCreateUpdate_Read(p) ==
    /\ pc[p] = "read" /\ op[p] = "AssociationCreate"
    /\ LET n == d[p].network_interface_id
           resourceId == FormatAssociationId(d[p].network_interface_id, d[p].ip_configuration_name,
                                             d[p].backend_address_pool_id)
       IN \E outcome \in GetOutcomes(n) :
            /\ Count(outcome)
            /\ \E data \in {[d[p] EXCEPT !.id = resourceId]} :
               \E nic \in {IF remote[n] = None THEN None ELSE Val(remote[n])} :
               \E r \in {AssociationReadResult(data, nic, outcome)} :
                    Return(p, r.err, r.d)
    /\ UNCHANGED <<remote, op, wrote, sent, init0, managed, given>>

(***************************************************************************)
(* loadBalancerBackendAddressPoolAssociationDelete                         *)
(***************************************************************************)
\* the payload as it would be with the comparison of line 292 inverted
AssociationDeletePayload_Inverted(nic, ipConfigurationName, backendAddressPoolId) ==
    IF nic.props = None THEN [err |-> "propertiesNil"]
    ELSE LET nicProps == Val(nic.props)
         IN IF nicProps.ipConfigs = None THEN [err |-> "ipConfigurationsNil"]
            ELSE LET c == FindNetworkInterfaceIPConfiguration(nicProps.ipConfigs, ipConfigurationName)
                 IN IF c = None THEN [err |-> "ipConfigurationNotFound"]
                    ELSE IF Val(c).props = None THEN [err |-> "ipConfigurationPropertiesNil"]
                    ELSE LET config == Val(c)
                             existing == PoolIdSeq(Val(config.props).pools)
                             kept == SelectSeq(existing, LAMBDA x : x = backendAddressPoolId)
                             backendAddressPools == [i \in 1..Len(kept) |-> Some(kept[i])]
                             config2 == [config EXCEPT !.props =
                                            Some([Val(config.props) EXCEPT !.pools = Some(backendAddressPools)])]
                         IN [err |-> "nil",
                             payload |-> [nic EXCEPT !.props = Some([nicProps EXCEPT !.ipConfigs =
                                 updateNetworkInterfaceIPConfiguration(config2, nicProps.ipConfigs)])]]

\* lines 264-298: the checks on the NIC read and the payload built from it
AssociationDeletePayload(nic, ipConfigurationName, backendAddressPoolId) ==
    IF nic.props = None THEN [err |-> "propertiesNil"]
    ELSE LET nicProps == Val(nic.props)
         IN IF nicProps.ipConfigs = None THEN [err |-> "ipConfigurationsNil"]
            ELSE LET c == FindNetworkInterfaceIPConfiguration(nicProps.ipConfigs, ipConfigurationName)
                 IN IF c = None THEN [err |-> "ipConfigurationNotFound"]
                    ELSE IF Val(c).props = None THEN [err |-> "ipConfigurationPropertiesNil"]
                    ELSE LET config == Val(c)
                             existing == PoolIdSeq(Val(config.props).pools)
                             kept == SelectSeq(existing, LAMBDA x : x # backendAddressPoolId)
                             backendAddressPools == [i \in 1..Len(kept) |-> Some(kept[i])]
                             config2 == [config EXCEPT !.props =
                                            Some([Val(config.props) EXCEPT !.pools = Some(backendAddressPools)])]
                         IN [err |-> "nil",
                             payload |-> [nic EXCEPT !.props = Some([nicProps EXCEPT !.ipConfigs =
                                 updateNetworkInterfaceIPConfiguration(config2, nicProps.ipConfigs)])]]

\* lines 235-250: the ID is split and parsed before anything else happens
loadBalancerBackendAddressPoolAssociationDelete_Begin(p) ==
    \E id \in AssociationIds :
        /\ ParseAssociationId(id).err = "nil"
        /\ Begin(p, "AssociationDelete", StateOfId(id), "lock")
        /\ UNCHANGED <<remote, lock, log, init0, managed, failures>>

\* lines 240-248: a malformed ID is answered with an error at once
loadBalancerBackendAddressPoolAssociationDelete_BadId(p) ==
    \E id \in AssociationIds :
        /\ ParseAssociationId(id).err # "nil"
        /\ Enter(p, "AssociationDelete")
        /\ ReturnAs(p, "AssociationDelete", ParseAssociationId(id).err, StateOfId(id), StateOfId(id))
        /\ UNCHANGED <<remote, init0, managed, failures>>

\* the parts of the ID of a running Delete
DeleteTarget(p) == ParseAssociationId(d[p].id)

\* the handler as it would be without lines 252-253: it goes on without the lock
AssociationDelete_NoLock(p) ==
    /\ pc[p] = "lock" /\ op[p] = "AssociationDelete"
    /\ pc' = [pc EXCEPT ![p] = "get"]
    /\ UNCHANGED <<remote, lock, op, d, read, err, wrote, sent, log, init0, managed, given, failures>>

\* lines 252-253
loadBalancerBackendAddressPoolAssociationDelete_Lock(p) ==
    /\ pc[p] = "lock" /\ op[p] = "AssociationDelete"
    /\ ByName(p, DeleteTarget(p).nic)
    /\ pc' = [pc EXCEPT ![p] = "get"]
    /\ UNCHANGED <<remote, op, d, read, err, wrote, sent, log, init0, managed, given, failures>>

\* the Get of the delete as it would be were not-found handled as Read handles it:
\* the ID is cleared and no error returned
loadBalancerBackendAddressPoolAssociationDelete_Get_ClearsLikeRead(p) ==
    /\ pc[p] = "get" /\ op[p] = "AssociationDelete"
    /\ \E t \in {DeleteTarget(p)} :
          \E outcome \in GetOutcomes(t.nic) :
            /\ Count(outcome)
            /\ IF outcome = "notfound" THEN Return(p, "nil", [d[p] EXCEPT !.id = <<>>])
               ELSE IF outcome = "error" THEN Return(p, "retrieving", d[p])
               ELSE LET r == AssociationDeletePayload(Val(remote[t.nic]), t.cfg, t.pool)
                    IN IF r.err # "nil" THEN Return(p, r.err, d[p])
                       ELSE /\ read' = [read EXCEPT ![p] = remote[t.nic]]
                            /\ pc' = [pc EXCEPT ![p] = "put"]
                            /\ UNCHANGED <<lock, d, err, log>>
    /\ UNCHANGED <<remote, op, wrote, sent, init0, managed, given>>

\* lines 255-283
loadBalancerBackendAddressPoolAssociationDelete_Get(p) ==
    /\ pc[p] = "get" /\ op[p] = "AssociationDelete"
    /\ \E t \in {DeleteTarget(p)} :
          \E outcome \in GetOutcomes(t.nic) :
            /\ Count(outcome)
            /\ IF outcome = "notfound" THEN Return(p, "notFound", d[p])
               ELSE IF outcome = "error" THEN Return(p, "retrieving", d[p])
               ELSE LET r == AssociationDeletePayload(Val(remote[t.nic]), t.cfg, t.pool)
                    IN IF r.err # "nil" THEN Return(p, r.err, d[p])
                       ELSE /\ read' = [read EXCEPT ![p] = remote[t.nic]]
                            /\ pc' = [pc EXCEPT ![p] = "put"]
                            /\ UNCHANGED <<lock, d, err, log>>
    /\ UNCHANGED <<remote, op, wrote, sent, init0, managed, given>>

\* lines 285-309
loadBalancerBackendAddressPoolAssociationDelete_Put(p) ==
    /\ pc[p] = "put" /\ op[p] = "AssociationDelete"
    /\ \E t \in {DeleteTarget(p)} :
       \E r \in {AssociationDeletePayload(Val(read[p]), t.cfg, t.pool)} :
          \E outcome \in PutOutcomes :
            /\ Count(outcome)
            /\ remote' = AfterPut(t.nic, r.payload, outcome)
            /\ wrote' = [wrote EXCEPT ![p] = @ + 1]
            /\ Return(p, CASE outcome = "callError" -> "createOrUpdate"
                           [] outcome = "waitError" -> "waitForCompletion"
                           [] OTHER -> "nil", d[p])
    /\ UNCHANGED <<op, sent, init0, managed, given>>

(***************************************************************************)
(* network_interface_resource.go: helpers                                  *)
(***************************************************************************)
\* one entry of the `ip_configuration` list of the configuration
IpConfigInput(name, version, subnet_id, primary) ==
    [name |-> name, private_ip_address_version |-> version, subnet_id |-> subnet_id,
     primary |-> primary, private_ip_address |-> "", public_ip_address_id |-> "",
     private_ip_address_allocation |-> "Dynamic"]

\* lines 486-528: one entry expanded
ExpandOne(data) ==
    [name  |-> data.name,
     props |-> Some([version   |-> data.private_ip_address_version,
                     subnet    |-> IF data.subnet_id # "" THEN Some(data.subnet_id) ELSE None,
                     primary   |-> Some(data.primary),
                     privateIP |-> IF data.private_ip_address # "" THEN Some(data.private_ip_address) ELSE None,
                     publicIP  |-> IF data.public_ip_address_id # "" THEN Some(data.public_ip_address_id) ELSE None,
                     alloc     |-> data.private_ip_address_allocation,
                     pools     |-> None])]

\* the function as it would be with line 532 reading `len(ipConfigs) > 2`
expandNetworkInterfaceIPConfigurations_OffByOne(input) ==
    IF \E i \in 1..Len(input) :
            input[i].private_ip_address_version = "IPv4" /\ input[i].subnet_id = ""
    THEN [err |-> "subnetIdRequired"]
    ELSE LET ipConfigs == [i \in 1..Len(input) |-> ExpandOne(input[i])]
         IN IF Len(ipConfigs) > 2 /\ ~\E i \in 1..Len(ipConfigs) :
                    Val(ipConfigs[i].props).primary = Some(TRUE)
            THEN [err |-> "primaryRequired"]
            ELSE [err |-> "nil", ipConfigs |-> ipConfigs]

\* lines 483-546
expandNetworkInterfaceIPConfigurations(input) ==
    IF \E i \in 1..Len(input) :
            input[i].private_ip_address_version = "IPv4" /\ input[i].subnet_id = ""
    THEN [err |-> "subnetIdRequired"]
    ELSE LET ipConfigs == [i \in 1..Len(input) |-> ExpandOne(input[i])]
         IN IF Len(ipConfigs) > 1 /\ ~\E i \in 1..Len(ipConfigs) :
                    Val(ipConfigs[i].props).primary = Some(TRUE)
            THEN [err |-> "primaryRequired"]
            ELSE [err |-> "nil", ipConfigs |-> ipConfigs]

\* the fields of the existing NIC that other resources manage: per IP configuration, its backend pools
parseFieldsFromNetworkInterface(props) ==
    IF props.ipConfigs = None THEN <<>>
    ELSE LET s == Val(props.ipConfigs)
         IN [i \in 1..Len(s) |->
                [name |-> s[i].name,
                 pools |-> IF s[i].props = None THEN None ELSE Val(s[i].props).pools]]

\* the expanded IP configurations with the fields managed by other resources mapped back
mapFieldsToNetworkInterface(ipConfigs, info) ==
    [i \in 1..Len(ipConfigs) |->
        LET hits == {j \in 1..Len(info) : info[j].name = ipConfigs[i].name}
        IN IF hits = {} THEN ipConfigs[i]
           ELSE [ipConfigs[i] EXCEPT !.props =
                    Some([Val(ipConfigs[i].props) EXCEPT !.pools =
                            info[CHOOSE j \in hits : \A k \in hits : j <= k].pools])]]

\* expandNetworkInterfaceDnsServers: the list as it is
expandNetworkInterfaceDnsServers(input) == input

\* `ip_configuration` lists a configuration may hold
IpConfigInputs ==
    { <<IpConfigInput("c1", "IPv4", "subnet1", TRUE)>>,
      <<IpConfigInput("c1", "IPv4", "subnet1", TRUE), IpConfigInput("c2", "IPv4", "subnet1", FALSE)>>,
      <<IpConfigInput("c1", "IPv4", "", TRUE)>>,
      <<IpConfigInput("c1", "IPv4", "subnet1", FALSE), IpConfigInput("c2", "IPv4", "subnet1", FALSE)>>,
      <<IpConfigInput("c2", "IPv6", "", TRUE)>>,
      <<IpConfigInput("c1", "IPv4", "nosubnet", TRUE)>>,
      <<IpConfigInput("c1", "IPv4", "", FALSE), IpConfigInput("c2", "IPv4", "subnet1", FALSE)>> }

NicConfig(dns, ipfwd, ipcfg, tags) ==
    [dns_servers |-> dns, enable_ip_forwarding |-> ipfwd, ip_configuration |-> ipcfg, tags |-> tags]

NicIdOf(n) == <<n>>

NicData(n, id) == [NoData EXCEPT !.name = n, !.id = id]

(***************************************************************************)
(* networkInterfaceRead                                                    *)
(***************************************************************************)
\* lines 353-365: the outcome of the Read handler that decides ID and error
NetworkInterfaceReadResult(data, outcome) ==
    IF NetworkInterfaceID(data.id) = None THEN [err |-> "parse", d |-> data]
    ELSE IF outcome = "notfound" THEN [err |-> "nil", d |-> [data EXCEPT !.id = <<>>]]
    ELSE IF outcome = "error" THEN [err |-> "retrieving", d |-> data]
    ELSE [err |-> "nil", d |-> [data EXCEPT !.name = Val(NetworkInterfaceID(data.id)).Name]]

\* resource IDs networkInterfaceRead may be handed: that of a NIC, and one that does not parse
NicIds == { NicIdOf(n) : n \in managed } \cup { <<"nic1", "extra">> }

\* lines 348-432: the Read handler, run on its own (refresh)
networkInterfaceRead(p) ==
    \E id \in NicIds :
        /\ Enter(p, "NicRead")
        /\ IF NetworkInterfaceID(id) = None
           THEN /\ ReturnAs(p, "NicRead", "parse", NicData("", id), NicData("", id))
                /\ UNCHANGED failures
           ELSE \E outcome \in GetOutcomes(Val(NetworkInterfaceID(id)).Name) :
                  /\ Count(outcome)
                  /\ LET r == NetworkInterfaceReadResult(NicData("", id), outcome)
                     IN ReturnAs(p, "NicRead", r.err, NicData("", id), r.d)
        /\ UNCHANGED <<remote, init0, managed>>

(***************************************************************************)
(* networkInterfaceCreate                                                  *)
(***************************************************************************)
\* the attributes networkInterfaceUpdate tests with d.HasChange
Attributes == {"dns_servers", "enable_ip_forwarding", "ip_configuration", "tags"}

\* configurations a new NIC is created from
CreateConfigs ==
    { NicConfig(<<>>, FALSE, ipcfg, "t1") : ipcfg \in IpConfigInputs }
    \cup { NicConfig(<<"d2">>, FALSE, <<IpConfigInput("c1", "IPv4", "subnet1", TRUE)>>, "t1") }

\* lines 194-240: the NIC built from the configuration
CreatePayload(cfg) ==
    LET e == expandNetworkInterfaceIPConfigurations(cfg.ip_configuration)
    IN IF e.err # "nil" THEN [err |-> "expanding"]
       ELSE [err |-> "nil",
             payload |->
                [id |-> None,
                 props |-> Some([dns |-> IF cfg.dns_servers # <<>>
                                         THEN Some([servers |-> Some(expandNetworkInterfaceDnsServers(cfg.dns_servers))])
                                         ELSE None,
                                 ipfwd |-> Some(cfg.enable_ip_forwarding),
                                 ipConfigs |-> IF Len(e.ipConfigs) > 0 THEN Some(e.ipConfigs) ELSE None,
                                 nsg |-> None]),
                 tags |-> cfg.tags]]

\* the check as it would be without lines 189-191: an existing NIC is not noticed
networkInterfaceCreate_Check_NoImport(p) ==
    \E n \in managed : \E outcome \in GetOutcomes(n) :
        /\ Count(outcome)
        /\ Enter(p, "NicCreate")
        /\ IF outcome = "error"
           THEN ReturnAs(p, "NicCreate", "checkingPresence", NicData(n, <<>>), NicData(n, <<>>))
           ELSE /\ d' = [d EXCEPT ![p] = NicData(n, <<>>)]
                /\ pc' = [pc EXCEPT ![p] = "lock"]
                /\ err' = [err EXCEPT ![p] = "nil"]
                /\ read' = [read EXCEPT ![p] = None]
                /\ UNCHANGED <<lock, log>>
        /\ UNCHANGED <<remote, init0, managed>>

\* lines 174-192: the existence check of a new resource, made before the lock is taken
networkInterfaceCreate_Check(p) ==
    \E n \in managed : \E outcome \in GetOutcomes(n) :
        /\ Count(outcome)
        /\ Enter(p, "NicCreate")
        /\ IF outcome = "error"
           THEN ReturnAs(p, "NicCreate", "checkingPresence", NicData(n, <<>>), NicData(n, <<>>))
           ELSE IF outcome # "notfound"
           THEN ReturnAs(p, "NicCreate", "importAsExists", NicData(n, <<>>), NicData(n, <<>>))
           ELSE /\ d' = [d EXCEPT ![p] = NicData(n, <<>>)]
                /\ pc' = [pc EXCEPT ![p] = "lock"]
                /\ err' = [err EXCEPT ![p] = "nil"]
                /\ read' = [read EXCEPT ![p] = None]
                /\ UNCHANGED <<lock, log>>
        /\ UNCHANGED <<remote, init0, managed>>

\* lines 202-203
networkInterfaceCreate_Lock(p) ==
    /\ pc[p] = "lock" /\ op[p] = "NicCreate"
    /\ ByName(p, d[p].name)
    /\ pc' = [pc EXCEPT ![p] = "details"]
    /\ UNCHANGED <<remote, op, d, read, err, wrote, sent, log, init0, managed, given, failures>>

\* lines 205-240: the payload is built from the configuration, and the subnet and
\* virtual network locks of its IP configurations are taken
networkInterfaceCreate_Details(p) ==
    /\ pc[p] = "details" /\ op[p] = "NicCreate"
    /\ \E in \in CreateConfigs :
        /\ given' = [given EXCEPT ![p] = Some([chg |-> Attributes, cfg |-> in])]
        /\ LET r == CreatePayload(in)
           IN IF r.err # "nil" THEN Return(p, r.err, d[p])
              ELSE LET details == determineResourcesToLockFromIPConfiguration(Val(r.payload.props).ipConfigs)
                   IN IF details.err # "nil" THEN Return(p, details.err, d[p])
                      ELSE /\ read' = [read EXCEPT ![p] = Some(r.payload)]
                           /\ UNCHANGED <<lock, d, err, log>>
                           /\ pc' = [pc EXCEPT ![p] = AfterLockingDetails(p, details, "put")]
    /\ UNCHANGED <<remote, op, wrote, sent, init0, managed, failures>>

\* lines 228-229: lockingDetails.lock()
networkInterfaceCreate_LockDetails(p) ==
    /\ pc[p] = "lockDetails" /\ op[p] = "NicCreate"
    /\ \E details \in {determineResourcesToLockFromIPConfiguration(Val(Val(read[p]).props).ipConfigs)} :
          /\ lockingDetailsLock(p, details)
          /\ pc' = [pc EXCEPT ![p] = AfterLockingDetails(p, details, "put")]
    /\ UNCHANGED <<remote, op, d, read, err, wrote, sent, log, init0, managed, failures, given>>

\* the sending as it would be were the unlocks called at the end of the handler
\* instead of deferred (lines 203, 229): an error return leaves the locks held
networkInterfaceCreate_Put_NoDefer(p) ==
    /\ pc[p] = "put" /\ op[p] = "NicCreate"
    /\ \E outcome \in PutOutcomes :
        /\ Count(outcome)
        /\ remote' = AfterPut(d[p].name, Val(read[p]), outcome)
        /\ wrote' = [wrote EXCEPT ![p] = @ + 1]
        /\ IF outcome = "ok"
           THEN /\ pc' = [pc EXCEPT ![p] = "read"]
                /\ UNCHANGED <<lock, d, read, err, log>>
           ELSE /\ pc' = [pc EXCEPT ![p] = "done"]
                /\ err' = [err EXCEPT ![p] = IF outcome = "callError" THEN "createOrUpdate"
                                              ELSE "waitForCompletion"]
                /\ read' = [read EXCEPT ![p] = None]
                /\ log' = Append(log, [proc |-> p, op |-> op[p], d |-> d[p],
                                       err |-> err'[p], id |-> d[p].id])
                /\ UNCHANGED <<lock, d>>
    /\ UNCHANGED <<op, sent, init0, managed, given>>

\* lines 242-249: the payload is sent
networkInterfaceCreate_Put(p) ==
    /\ pc[p] = "put" /\ op[p] = "NicCreate"
    /\ \E outcome \in PutOutcomes :
        /\ Count(outcome)
        /\ remote' = AfterPut(d[p].name, Val(read[p]), outcome)
        /\ wrote' = [wrote EXCEPT ![p] = @ + 1]
        /\ IF outcome = "callError" THEN Return(p, "createOrUpdate", d[p])
           ELSE IF outcome = "waitError" THEN Return(p, "waitForCompletion", d[p])
           ELSE /\ pc' = [pc EXCEPT ![p] = "read"]
                /\ UNCHANGED <<lock, d, read, err, log>>
    /\ UNCHANGED <<op, sent, init0, managed, given>>

\* the Read as it would be were it to take the lock of the NIC as the other handlers do:
\* locks.ByName blocks, the create holds that lock already
networkInterfaceCreate_Read_TakesLock(p) ==
    /\ pc[p] = "read" /\ op[p] = "NicCreate"
    /\ lock[d[p].name] = NoProc
    /\ \E outcome \in GetOutcomes(d[p].name) :
        /\ Count(outcome)
        /\ LET r == NetworkInterfaceReadResult([d[p] EXCEPT !.id = NicIdOf(d[p].name)], outcome)
           IN Return(p, r.err, r.d)
    /\ UNCHANGED <<remote, op, wrote, sent, init0, managed, given>>

\* lines 251-252: SetId, then the Read handler on the same resource data
networkInterfaceCreate_Read(p) ==
    /\ pc[p] = "read" /\ op[p] = "NicCreate"
    /\ \E outcome \in GetOutcomes(d[p].name) :
        /\ Count(outcome)
        /\ LET r == NetworkInterfaceReadResult([d[p] EXCEPT !.id = NicIdOf(d[p].name)], outcome)
           IN Return(p, r.err, r.d)
    /\ UNCHANGED <<remote, op, wrote, sent, init0, managed, given>>

(***************************************************************************)
(* networkInterfaceUpdate                                                  *)
(***************************************************************************)

\* what d.HasChange answers TRUE for: nothing, one attribute, or all of them
ChangeSets == {{}} \cup {{a} : a \in Attributes} \cup {Attributes}

\* the configuration an update carries; it differs from what the starting NIC holds
UpdateConfigs == { NicConfig(<<"d2">>, TRUE, ipcfg, "t1") : ipcfg \in IpConfigInputs }

\* the inputs of an update that its payload depends on
UpdateInputs ==
    { in \in [chg : ChangeSets, cfg : UpdateConfigs] :
        "ip_configuration" \notin in.chg =>
            in.cfg.ip_configuration = <<IpConfigInput("c1", "IPv4", "subnet1", TRUE)>> }

\* the payload as it would be were lines 327-332 a plain assignment of the configured tags
UpdatePayload_ReplaceTags(existing, chg, cfg) ==
    LET ex == Val(existing.props)
        info == parseFieldsFromNetworkInterface(ex)
    IN IF "dns_servers" \notin chg /\ ex.dns = None THEN [err |-> "panic"]
       ELSE LET e == expandNetworkInterfaceIPConfigurations(cfg.ip_configuration)
            IN IF "ip_configuration" \in chg /\ e.err # "nil" THEN [err |-> "expanding"]
               ELSE [err |-> "nil",
                     payload |->
                        [id |-> None,
                         props |-> Some(
                            [dns |-> Some([servers |->
                                        IF "dns_servers" \in chg
                                        THEN Some(expandNetworkInterfaceDnsServers(cfg.dns_servers))
                                        ELSE Val(ex.dns).servers]),
                             ipfwd |-> IF "enable_ip_forwarding" \in chg
                                       THEN Some(cfg.enable_ip_forwarding)
                                       ELSE ex.ipfwd,
                             ipConfigs |-> IF "ip_configuration" \in chg
                                           THEN Some(mapFieldsToNetworkInterface(e.ipConfigs, info))
                                           ELSE ex.ipConfigs,
                             nsg |-> ex.nsg]),
                         tags |-> cfg.tags]]

\* the payload as it would be without line 320: the expanded list is sent as configured
UpdatePayload_NoMapBack(existing, chg, cfg) ==
    LET ex == Val(existing.props)
    IN IF "dns_servers" \notin chg /\ ex.dns = None THEN [err |-> "panic"]
       ELSE LET e == expandNetworkInterfaceIPConfigurations(cfg.ip_configuration)
            IN IF "ip_configuration" \in chg /\ e.err # "nil" THEN [err |-> "expanding"]
               ELSE [err |-> "nil",
                     payload |->
                        [id |-> None,
                         props |-> Some(
                            [dns |-> Some([servers |->
                                        IF "dns_servers" \in chg
                                        THEN Some(expandNetworkInterfaceDnsServers(cfg.dns_servers))
                                        ELSE Val(ex.dns).servers]),
                             ipfwd |-> IF "enable_ip_forwarding" \in chg
                                       THEN Some(cfg.enable_ip_forwarding)
                                       ELSE ex.ipfwd,
                             ipConfigs |-> IF "ip_configuration" \in chg
                                           THEN Some(e.ipConfigs)
                                           ELSE ex.ipConfigs,
                             nsg |-> ex.nsg]),
                         tags |-> IF "tags" \in chg THEN cfg.tags ELSE existing.tags]]

\* lines 279-335: the payload built from the existing NIC and the changed attributes
UpdatePayload(existing, chg, cfg) ==
    LET ex == Val(existing.props)
        info == parseFieldsFromNetworkInterface(ex)
    IN IF "dns_servers" \notin chg /\ ex.dns = None THEN [err |-> "panic"]
       ELSE LET e == expandNetworkInterfaceIPConfigurations(cfg.ip_configuration)
            IN IF "ip_configuration" \in chg /\ e.err # "nil" THEN [err |-> "expanding"]
               ELSE [err |-> "nil",
                     payload |->
                        [id |-> None,
                         props |-> Some(
                            [dns |-> Some([servers |->
                                        IF "dns_servers" \in chg
                                        THEN Some(expandNetworkInterfaceDnsServers(cfg.dns_servers))
                                        ELSE Val(ex.dns).servers]),
                             ipfwd |-> IF "enable_ip_forwarding" \in chg
                                       THEN Some(cfg.enable_ip_forwarding)
                                       ELSE ex.ipfwd,
                             ipConfigs |-> IF "ip_configuration" \in chg
                                           THEN Some(mapFieldsToNetworkInterface(e.ipConfigs, info))
                                           ELSE ex.ipConfigs,
                             nsg |-> ex.nsg]),
                         tags |-> IF "tags" \in chg THEN cfg.tags ELSE existing.tags]]

\* lines 255-263
networkInterfaceUpdate_Begin(p) ==
    \E n \in managed :
        /\ Begin(p, "NicUpdate", NicData(n, NicIdOf(n)), "lock")
        /\ UNCHANGED <<remote, lock, log, init0, managed, failures>>

\* lines 265-266
networkInterfaceUpdate_Lock(p) ==
    /\ pc[p] = "lock" /\ op[p] = "NicUpdate"
    /\ ByName(p, Val(NetworkInterfaceID(d[p].id)).Name)
    /\ pc' = [pc EXCEPT ![p] = "get"]
    /\ UNCHANGED <<remote, op, d, read, err, wrote, sent, log, init0, managed, given, failures>>

\* lines 268-276
networkInterfaceUpdate_Get(p) ==
    /\ pc[p] = "get" /\ op[p] = "NicUpdate"
    /\ LET n == Val(NetworkInterfaceID(d[p].id)).Name
       IN \E outcome \in GetOutcomes(n) :
            /\ Count(outcome)
            /\ IF outcome # "ok" THEN Return(p, "retrieving", d[p])
               ELSE IF Val(remote[n]).props = None THEN Return(p, "propertiesNil", d[p])
               ELSE /\ read' = [read EXCEPT ![p] = remote[n]]
                    /\ pc' = [pc EXCEPT ![p] = "details"]
                    /\ UNCHANGED <<lock, d, err, log>>
    /\ UNCHANGED <<remote, op, wrote, sent, init0, managed, given>>

\* the locks of lines 311-317, taken only when ip_configuration has changed
UpdateLockingDetails(chg, cfg) ==
    IF "ip_configuration" \in chg
    THEN determineResourcesToLockFromIPConfiguration(
            Some(expandNetworkInterfaceIPConfigurations(cfg.ip_configuration).ipConfigs))
    ELSE [err |-> "nil", subnetNamesToLock |-> {}, virtualNetworkNamesToLock |-> {}]

\* lines 279-335: the payload is built from the NIC read and the configuration, and the
\* subnet and virtual network locks of a changed ip_configuration are taken
networkInterfaceUpdate_Details(p) ==
    /\ pc[p] = "details" /\ op[p] = "NicUpdate"
    /\ \E in \in UpdateInputs :
        /\ given' = [given EXCEPT ![p] = Some(in)]
        /\ LET r == UpdatePayload(Val(read[p]), in.chg, in.cfg)
           IN IF r.err # "nil"
              THEN /\ Return(p, r.err, d[p])
                   /\ UNCHANGED sent
              ELSE LET details == UpdateLockingDetails(in.chg, in.cfg)
                   IN IF details.err # "nil"
                      THEN /\ Return(p, details.err, d[p])
                           /\ UNCHANGED sent
                      ELSE /\ sent' = [sent EXCEPT ![p] =
                                         Some([chg |-> in.chg, cfg |-> in.cfg,
                                               existing |-> Val(read[p]), payload |-> r.payload])]
                           /\ UNCHANGED <<lock, d, read, err, log>>
                           /\ pc' = [pc EXCEPT ![p] = AfterLockingDetails(p, details, "put")]
    /\ UNCHANGED <<remote, op, wrote, init0, managed, failures>>

\* lines 316-317: lockingDetails.lock()
networkInterfaceUpdate_LockDetails(p) ==
    /\ pc[p] = "lockDetails" /\ op[p] = "NicUpdate"
    /\ \E details \in {UpdateLockingDetails(Val(sent[p]).chg, Val(sent[p]).cfg)} :
          /\ lockingDetailsLock(p, details)
          /\ pc' = [pc EXCEPT ![p] = AfterLockingDetails(p, details, "put")]
    /\ UNCHANGED <<remote, op, d, read, err, wrote, sent, log, init0, managed, failures, given>>

\* lines 337-345: the payload is sent
networkInterfaceUpdate_Put(p) ==
    /\ pc[p] = "put" /\ op[p] = "NicUpdate"
    /\ LET n == Val(NetworkInterfaceID(d[p].id)).Name
       IN \E outcome \in PutOutcomes :
            /\ Count(outcome)
            /\ remote' = AfterPut(n, Val(sent[p]).payload, outcome)
            /\ wrote' = [wrote EXCEPT ![p] = @ + 1]
            /\ Return(p, CASE outcome = "callError" -> "createOrUpdate"
                           [] outcome = "waitError" -> "waitForCompletion"
                           [] OTHER -> "nil", d[p])
    /\ UNCHANGED <<op, sent, init0, managed, given>>

(***************************************************************************)
(* networkInterfaceDelete                                                  *)
(***************************************************************************)
\* lines 434-442
networkInterfaceDelete_Begin(p) ==
    \E n \in managed :
        /\ Begin(p, "NicDelete", NicData(n, NicIdOf(n)), "lock")
        /\ UNCHANGED <<remote, lock, log, init0, managed, failures>>

\* lines 444-445
networkInterfaceDelete_Lock(p) ==
    /\ pc[p] = "lock" /\ op[p] = "NicDelete"
    /\ ByName(p, Val(NetworkInterfaceID(d[p].id)).Name)
    /\ pc' = [pc EXCEPT ![p] = "get"]
    /\ UNCHANGED <<remote, op, d, read, err, wrote, sent, log, init0, managed, given, failures>>

\* the Get of the delete as it would be without lines 449-453: not-found is an error like any other
networkInterfaceDelete_Get_NotFoundFails(p) ==
    /\ pc[p] = "get" /\ op[p] = "NicDelete"
    /\ LET n == Val(NetworkInterfaceID(d[p].id)).Name
       IN \E outcome \in GetOutcomes(n) :
            /\ Count(outcome)
            /\ IF outcome \in {"notfound", "error"} THEN Return(p, "retrieving", d[p])
               ELSE IF Val(remote[n]).props = None THEN Return(p, "propertiesNil", d[p])
               ELSE /\ read' = [read EXCEPT ![p] = remote[n]]
                    /\ pc' = [pc EXCEPT ![p] = "details"]
                    /\ UNCHANGED <<lock, d, err, log>>
    /\ UNCHANGED <<remote, op, wrote, sent, init0, managed, given>>

\* lines 447-461
networkInterfaceDelete_Get(p) ==
    /\ pc[p] = "get" /\ op[p] = "NicDelete"
    /\ LET n == Val(NetworkInterfaceID(d[p].id)).Name
       IN \E outcome \in GetOutcomes(n) :
            /\ Count(outcome)
            /\ IF outcome = "notfound" THEN Return(p, "nil", [d[p] EXCEPT !.id = <<>>])
               ELSE IF outcome = "error" THEN Return(p, "retrieving", d[p])
               ELSE IF Val(remote[n]).props = None THEN Return(p, "propertiesNil", d[p])
               ELSE /\ read' = [read EXCEPT ![p] = remote[n]]
                    /\ pc' = [pc EXCEPT ![p] = "details"]
                    /\ UNCHANGED <<lock, d, err, log>>
    /\ UNCHANGED <<remote, op, wrote, sent, init0, managed, given>>

\* lines 463-469: the subnet and virtual network locks of the NIC read are taken
networkInterfaceDelete_Details(p) ==
    /\ pc[p] = "details" /\ op[p] = "NicDelete"
    /\ LET details == determineResourcesToLockFromIPConfiguration(Val(Val(read[p]).props).ipConfigs)
       IN IF details.err # "nil" THEN Return(p, details.err, d[p])
          ELSE /\ UNCHANGED <<lock, d, read, err, log>>
               /\ pc' = [pc EXCEPT ![p] = AfterLockingDetails(p, details, "delete")]
    /\ UNCHANGED <<remote, op, wrote, sent, init0, managed, given, failures>>

\* lines 468-469: lockingDetails.lock()
networkInterfaceDelete_LockDetails(p) ==
    /\ pc[p] = "lockDetails" /\ op[p] = "NicDelete"
    /\ \E details \in {determineResourcesToLockFromIPConfiguration(Val(Val(read[p]).props).ipConfigs)} :
          /\ lockingDetailsLock(p, details)
          /\ pc' = [pc EXCEPT ![p] = AfterLockingDetails(p, details, "delete")]
    /\ UNCHANGED <<remote, op, d, read, err, wrote, sent, log, init0, managed, failures, given>>

\* what ARM holds after a Delete with this outcome
AfterDelete(n, outcome) ==
    IF outcome = "callError" THEN remote ELSE [remote EXCEPT ![n] = None]

\* lines 471-480
networkInterfaceDelete_Delete(p) ==
    /\ pc[p] = "delete" /\ op[p] = "NicDelete"
    /\ LET n == Val(NetworkInterfaceID(d[p].id)).Name
       IN \E outcome \in PutOutcomes :
            /\ Count(outcome)
            /\ remote' = AfterDelete(n, outcome)
            /\ wrote' = [wrote EXCEPT ![p] = @ + 1]
            /\ Return(p, CASE outcome = "callError" -> "deleting"
                           [] outcome = "waitError" -> "waitForCompletion"
                           [] OTHER -> "nil", d[p])
    /\ UNCHANGED <<op, sent, init0, managed, given>>

\* lines 203, 266, 445: the handler's first deferred call, locks.UnlockByName of the
\* NIC lock, runs last, after the lockingDetails.unlock() deferred at lines 229, 317, 469
networkInterfaceDeferredUnlock(p) ==
    /\ pc[p] = "unlock"
    /\ pc' = [pc EXCEPT ![p] = "done"]
    /\ lock' = UnlockByName(p)
    /\ log' = Append(log, [proc |-> p, op |-> op[p], d |-> d[p], err |-> err[p], id |-> d[p].id])
    /\ UNCHANGED <<remote, op, d, read, err, wrote, sent, init0, managed, failures, given>>

(***************************************************************************)
(* The provider runs the handlers of different resources concurrently.     *)
(***************************************************************************)
AssociationStep(p) ==
    \/ loadBalancerBackendAddressPoolAssociationImporter(p)
    \/ loadBalancerBackendAddressPoolAssociationRead(p)
    \/ loadBalancerBackendAddressPoolAssociationCreateUpdate_Begin(p)
    \/ loadBalancerBackendAddressPoolAssociationCreateUpdate_Lock(p)
    \/ loadBalancerBackendAddressPoolAssociationCreateUpdate_Get(p)
    \/ loadBalancerBackendAddressPoolAssociationCreateUpdate_Put(p)
    \/ loadBalancerBackendAddressPoolAssociationCreateUpdate_Read(p)
    \/ loadBalancerBackendAddressPoolAssociationDelete_Begin(p)
    \/ loadBalancerBackendAddressPoolAssociationDelete_BadId(p)
    \/ loadBalancerBackendAddressPoolAssociationDelete_Lock(p)
    \/ loadBalancerBackendAddressPoolAssociationDelete_Get(p)
    \/ loadBalancerBackendAddressPoolAssociationDelete_Put(p)

NicStep(p) ==
    \/ networkInterfaceRead(p)
    \/ networkInterfaceCreate_Check(p)
    \/ networkInterfaceCreate_Lock(p)
    \/ networkInterfaceCreate_Details(p)
    \/ networkInterfaceCreate_LockDetails(p)
    \/ networkInterfaceCreate_Put(p)
    \/ networkInterfaceCreate_Read(p)
    \/ networkInterfaceUpdate_Begin(p)
    \/ networkInterfaceUpdate_Lock(p)
    \/ networkInterfaceUpdate_Get(p)
    \/ networkInterfaceUpdate_Details(p)
    \/ networkInterfaceUpdate_LockDetails(p)
    \/ networkInterfaceUpdate_Put(p)
    \/ networkInterfaceDelete_Begin(p)
    \/ networkInterfaceDelete_Lock(p)
    \/ networkInterfaceDelete_Get(p)
    \/ networkInterfaceDelete_Details(p)
    \/ networkInterfaceDelete_LockDetails(p)
    \/ networkInterfaceDelete_Delete(p)
    \/ networkInterfaceDeferredUnlock(p)

Next == \E p \in Procs : AssociationStep(p) \/ NicStep(p)

Spec == Init /\ [][Next]_vars

(***************************************************************************)
(* Two NICs whose IP configurations are on the same subnet are managed:    *)
(* nic1 exists, nic2 is still to be created.                               *)
(* The handlers of one NIC then meet those of the other at the subnet and  *)
(* virtual network locks.  A goroutine that can go on does go on: the      *)
(* remote calls return, and a lock that stays free is taken by a waiter.   *)
(* (Each goroutine runs one handler, so a lock that has been released      *)
(* by the other goroutine's handler stays free: weak fairness is enough.)  *)
(***************************************************************************)
SharedInterface(n) ==
    Some(Interface(n, Some(InterfaceProps(ExistingDns, Some(FALSE),
                                          Some(<<IPConfig("c1", "IPv4", Some("subnet1"), Some(TRUE),
                                                          Some(<<Some("pA")>>)), OtherConfig>>),
                                          Some("nsg1"))), "t0"))

InitShared ==
    /\ managed = NicNames
    /\ remote = [n \in NicNames |-> IF n = "nic2" THEN None ELSE SharedInterface(n)]
    /\ Start

\* a step of the handler goroutine p has entered
Proceed(p) ==
    \/ loadBalancerBackendAddressPoolAssociationCreateUpdate_Lock(p)
    \/ loadBalancerBackendAddressPoolAssociationCreateUpdate_Get(p)
    \/ loadBalancerBackendAddressPoolAssociationCreateUpdate_Put(p)
    \/ loadBalancerBackendAddressPoolAssociationCreateUpdate_Read(p)
    \/ loadBalancerBackendAddressPoolAssociationDelete_Lock(p)
    \/ loadBalancerBackendAddressPoolAssociationDelete_Get(p)
    \/ loadBalancerBackendAddressPoolAssociationDelete_Put(p)
    \/ networkInterfaceCreate_Lock(p)
    \/ networkInterfaceCreate_Details(p)
    \/ networkInterfaceCreate_LockDetails(p)
    \/ networkInterfaceCreate_Put(p)
    \/ networkInterfaceCreate_Read(p)
    \/ networkInterfaceUpdate_Lock(p)
    \/ networkInterfaceUpdate_Get(p)
    \/ networkInterfaceUpdate_Details(p)
    \/ networkInterfaceUpdate_LockDetails(p)
    \/ networkInterfaceUpdate_Put(p)
    \/ networkInterfaceDelete_Lock(p)
    \/ networkInterfaceDelete_Get(p)
    \/ networkInterfaceDelete_Details(p)
    \/ networkInterfaceDelete_LockDetails(p)
    \/ networkInterfaceDelete_Delete(p)
    \/ networkInterfaceDeferredUnlock(p)

SpecShared == InitShared /\ [][Next]_vars /\ \A p \in Procs : WF_vars(Proceed(p))


(***************************************************************************)
(* Properties                                                              *)
(***************************************************************************)
\* the NIC whose lock handler p works under
NicOf(p) ==
    IF op[p] \in {"AssociationCreate"} THEN d[p].network_interface_id
    ELSE IF op[p] \in {"AssociationDelete", "AssociationRead", "AssociationImport"} THEN NicOfId(d[p].id)
    ELSE d[p].name

\* p is between locks.ByName and the deferred UnlockByName
InLockedRegion(p) == pc[p] \in {"get", "details", "lockDetails", "put", "read", "delete", "unlock"}

\* p is about to issue CreateOrUpdate or Delete
AboutToWrite(p) == pc[p] \in {"put", "delete"}

AllDone == \A p \in Procs : pc[p] = "done"

\* the backend pool IDs IP configuration c of NIC object o lists, in order
PoolsOn(o, c) ==
    IF o = None THEN <<>>
    ELSE IF Val(o).props = None THEN <<>>
    ELSE LET f == FindNetworkInterfaceIPConfiguration(Val(Val(o).props).ipConfigs, c)
         IN IF f = None THEN <<>>
            ELSE IF Val(f).props = None THEN <<>>
            ELSE PoolIdSeq(Val(Val(f).props).pools)

\* NIC object o has an IP configuration named c
HasConfig(o, c) ==
    /\ o # None
    /\ Val(o).props # None
    /\ FindNetworkInterfaceIPConfiguration(Val(Val(o).props).ipConfigs, c) # None

\* what a returned association handler was about
EntryCfg(e) == IF e.op = "AssociationCreate" THEN e.d.ip_configuration_name
               ELSE ParseAssociationId(e.d.id).cfg
EntryPool(e) == IF e.op = "AssociationCreate" THEN e.d.backend_address_pool_id
                ELSE ParseAssociationId(e.d.id).pool

EntryNic(e) == IF e.op = "AssociationCreate" THEN e.d.network_interface_id
               ELSE ParseAssociationId(e.d.id).nic

Entries == {log[i] : i \in 1..Len(log)}

\* C1: at most one handler is inside the locked region of a NIC at any moment,
\* whoever is inside holds the lock of that NIC, and so every CreateOrUpdate
\* or Delete call is issued by the holder of the lock.
C1_MutualExclusion ==
    /\ \A p, q \in Procs :
         InLockedRegion(p) /\ InLockedRegion(q) /\ NicOf(p) = NicOf(q) => p = q
    /\ \A p \in Procs : InLockedRegion(p) => lock[NicOf(p)] = p
    /\ \A p \in Procs : AboutToWrite(p) => lock[NicOf(p)] = p

\* one handler is about to write while another waits for the lock of the same NIC
C1_Witness ==
    \E p, q \in Procs :
        /\ p # q
        /\ AboutToWrite(p) /\ op[p] = "NicUpdate"
        /\ pc[q] = "lock" /\ op[q] = "AssociationDelete"
        /\ NicOf(p) = NicOf(q)

\* C2: when association creates and deletes with pairwise distinct pool IDs
\* have all returned success on the same NIC and IP configuration, the pool
\* IDs on it are the initial ones, plus the created, minus the deleted.
C2_NoLostUpdate ==
    LET ok == /\ AllDone
              /\ \A e \in Entries : e.op \in {"AssociationCreate", "AssociationDelete"} /\ e.err = "nil"
              /\ \A i, j \in 1..Len(log) : i # j => EntryPool(log[i]) # EntryPool(log[j])
    IN ok =>
        \A c \in TargetCfgNames : \A n \in NicNames :
            SeqRange(PoolsOn(remote[n], c)) =
                (SeqRange(PoolsOn(init0[n], c))
                    \cup {EntryPool(e) : e \in {x \in Entries : x.op = "AssociationCreate" /\ EntryNic(x) = n}})
                \ {EntryPool(e) : e \in {x \in Entries : x.op = "AssociationDelete" /\ EntryNic(x) = n}}

\* a create and a delete of different pools both returned success, and both took effect
C2_Witness ==
    /\ AllDone
    /\ \E e1, e2 \in Entries :
        /\ e1.op = "AssociationCreate" /\ e1.err = "nil" /\ EntryPool(e1) = "pB"
        /\ e2.op = "AssociationDelete" /\ e2.err = "nil" /\ EntryPool(e2) = "pA"
    /\ "pA" \in SeqRange(PoolsOn(init0["nic1"], "c1"))
    /\ SeqRange(PoolsOn(remote["nic1"], "c1")) = {"pB"}

\* C3: after networkInterfaceUpdate and association creates on the same NIC
\* have returned, in whatever order they ran, every pool whose association
\* create returned success is listed on its IP configuration, if the NIC
\* still has an IP configuration of that name.
C3_UpdateKeepsAssociations ==
    LET ok == /\ AllDone
              /\ \A e \in Entries : e.op \in {"AssociationCreate", "NicUpdate"}
    IN ok =>
        \A e \in Entries :
            e.op = "AssociationCreate" /\ e.err = "nil"
                /\ HasConfig(remote[e.d.network_interface_id], EntryCfg(e))
            => EntryPool(e) \in SeqRange(PoolsOn(remote[e.d.network_interface_id], EntryCfg(e)))

\* an update that changed ip_configuration and an association create both succeeded
C3_Witness ==
    /\ AllDone
    /\ \E p, q \in Procs :
        /\ op[p] = "NicUpdate" /\ err[p] = "nil" /\ sent[p] # None
        /\ "ip_configuration" \in Val(sent[p]).chg
        /\ op[q] = "AssociationCreate" /\ err[q] = "nil"
        /\ log[1].proc = q
        /\ d[q].backend_address_pool_id \in SeqRange(PoolsOn(remote["nic1"], "c1"))


\* NIC object after is NIC object before with the backend pool IDs of IP
\* configuration c set to ids and nothing else changed
SameExceptPools(before, after, c, ids) ==
    /\ before.props # None /\ after.props # None
    /\ after.id = before.id
    /\ after.tags = before.tags
    /\ LET b == Val(before.props)
           a == Val(after.props)
       IN /\ a.dns = b.dns /\ a.ipfwd = b.ipfwd /\ a.nsg = b.nsg
          /\ b.ipConfigs # None /\ a.ipConfigs # None
          /\ Len(Val(a.ipConfigs)) = Len(Val(b.ipConfigs))
          /\ \A i \in 1..Len(Val(b.ipConfigs)) :
                LET bc == Val(b.ipConfigs)[i]
                    ac == Val(a.ipConfigs)[i]
                IN IF bc.name # c THEN ac = bc
                   ELSE /\ ac.name = bc.name
                        /\ bc.props # None /\ ac.props # None
                        /\ PoolIdSeq(Val(ac.props).pools) = ids
                        /\ [Val(ac.props) EXCEPT !.pools = None] = [Val(bc.props) EXCEPT !.pools = None]

\* C4: a successful association delete for pool P on IP configuration C leaves
\* on C the pool IDs that were there, in their order, without any occurrence of
\* P, and leaves every other IP configuration and every other NIC field as it was.
C4_DeleteRemovesOnlyItsPool ==
    [][\A p \in Procs :
        (op[p] = "AssociationDelete" /\ pc[p] = "put" /\ pc'[p] = "done" /\ err'[p] = "nil")
        => LET t == DeleteTarget(p)
           IN /\ remote[t.nic] # None /\ remote'[t.nic] # None
              /\ SameExceptPools(Val(remote[t.nic]), Val(remote'[t.nic]), t.cfg,
                                 SelectSeq(PoolsOn(remote[t.nic], t.cfg), LAMBDA x : x # t.pool))]_vars

\* a delete of pA succeeded on a list that held pA twice and pB in between
C4_Witness ==
    \E p \in Procs :
        /\ op[p] = "AssociationDelete" /\ pc[p] = "done" /\ err[p] = "nil" /\ wrote[p] = 1
        /\ DeleteTarget(p).pool = "pA"
        /\ PoolsOn(init0["nic1"], "c1") = <<"pA", "pB", "pA">>
        /\ PoolsOn(remote["nic1"], "c1") = <<"pB">>

\* C5: a successful association create for pool P on IP configuration C leaves
\* on C the pool IDs that were there followed by P, and leaves every other IP
\* configuration and every other NIC field as it was.
C5_CreateAddsOnlyItsPool ==
    [][\A p \in Procs :
        (op[p] = "AssociationCreate" /\ pc[p] = "put" /\ pc'[p] = "read")
        => LET n == d[p].network_interface_id
               c == d[p].ip_configuration_name
           IN /\ remote[n] # None /\ remote'[n] # None
              /\ SameExceptPools(Val(remote[n]), Val(remote'[n]), c,
                                 Append(PoolsOn(remote[n], c), d[p].backend_address_pool_id))]_vars

\* a create of pB succeeded on a list that held pA
C5_Witness ==
    \E p \in Procs :
        /\ op[p] = "AssociationCreate" /\ pc[p] = "done" /\ err[p] = "nil" /\ wrote[p] = 1
        /\ d[p].backend_address_pool_id = "pB"
        /\ PoolsOn(init0["nic1"], "c1") = <<"pA">>
        /\ PoolsOn(remote["nic1"], "c1") = <<"pA", "pB">>


\* the IP configuration of association create p already lists its pool
AlreadyListed(p) ==
    d[p].backend_address_pool_id
        \in SeqRange(PoolsOn(remote[d[p].network_interface_id], d[p].ip_configuration_name))

\* C6: when the Get of an association create answers with a NIC whose target IP
\* configuration already lists the pool, the create returns the import-as-exists
\* error; and whenever it returns that error it has issued no CreateOrUpdate,
\* the remote NIC is as it was, the resource ID is unset and the NIC lock is free of it.
C6_CreateRequiresImport ==
    [][\A p \in Procs :
        /\ (op[p] = "AssociationCreate" /\ pc[p] = "get" /\ pc'[p] # "get"
                /\ failures' = failures /\ AlreadyListed(p))
           => (pc'[p] = "done" /\ err'[p] = "importAsExists")
        /\ (op[p] = "AssociationCreate" /\ pc[p] # "done" /\ pc'[p] = "done"
                /\ err'[p] = "importAsExists")
           => /\ AlreadyListed(p)
              /\ wrote'[p] = 0
              /\ remote' = remote
              /\ d'[p].id = <<>>
              /\ lock'[d[p].network_interface_id] # p]_vars

\* an association create returned the import-as-exists error
C6_Witness ==
    \E p \in Procs :
        /\ op[p] = "AssociationCreate" /\ pc[p] = "done" /\ err[p] = "importAsExists"
        /\ d[p].id = <<>> /\ wrote[p] = 0
        /\ lock[d[p].network_interface_id] # p

\* C7: the existence check of networkInterfaceCreate: a NIC that is found gives
\* the import-as-exists error, a Get failure other than not-found gives an
\* error, both without a write and without an ID; only not-found lets it go on.
C7_NicCreateRequiresImport ==
    [][\A p \in Procs :
        (pc[p] = "idle" /\ op'[p] = "NicCreate")
        => LET n == d'[p].name
           IN /\ (failures' = failures /\ remote[n] # None)
                    => (pc'[p] = "done" /\ err'[p] = "importAsExists")
              /\ (failures' # failures)
                    => (pc'[p] = "done" /\ err'[p] = "checkingPresence")
              /\ (pc'[p] # "done")
                    => (pc'[p] = "lock" /\ remote[n] = None /\ failures' = failures)
              /\ (pc'[p] = "done")
                    => (wrote'[p] = 0 /\ d'[p].id = <<>> /\ remote' = remote)]_vars

\* a networkInterfaceCreate found the NIC and returned the import-as-exists error
C7_Witness ==
    \E p \in Procs :
        /\ op[p] = "NicCreate" /\ pc[p] = "done" /\ err[p] = "importAsExists"
        /\ wrote[p] = 0 /\ d[p].id = <<>>
        /\ init0[d[p].name] # None

\* C8: whenever a networkInterfaceCreate is about to issue CreateOrUpdate no
\* NIC of that name exists remotely, and at most one of the creates writes.
C8_ImportUnderConcurrency ==
    /\ \A p \in Procs :
         (op[p] = "NicCreate" /\ pc[p] = "put") => remote[d[p].name] = None
    /\ Cardinality({p \in Procs : op[p] = "NicCreate" /\ wrote[p] > 0}) <= 1

\* the configured attributes of entry i of the payload's IP configurations are those of the configuration
ConfiguredEntry(c, data) ==
    /\ c.name = data.name
    /\ c.props # None
    /\ Val(c.props).version = data.private_ip_address_version
    /\ Val(c.props).subnet = (IF data.subnet_id = "" THEN None ELSE Some(data.subnet_id))
    /\ Val(c.props).primary = Some(data.primary)
    /\ Val(c.props).alloc = data.private_ip_address_allocation

\* payload merges the changed attributes of cfg into NIC object before
MergeOf(before, payload, chg, cfg) ==
    LET b == Val(before.props)
        a == Val(payload.props)
    IN /\ Val(a.dns).servers = (IF "dns_servers" \in chg THEN Some(cfg.dns_servers)
                                ELSE Val(b.dns).servers)
       /\ a.ipfwd = (IF "enable_ip_forwarding" \in chg THEN Some(cfg.enable_ip_forwarding) ELSE b.ipfwd)
       /\ payload.tags = (IF "tags" \in chg THEN cfg.tags ELSE before.tags)
       /\ IF "ip_configuration" \in chg
          THEN /\ a.ipConfigs # None
               /\ Len(Val(a.ipConfigs)) = Len(cfg.ip_configuration)
               /\ \A i \in 1..Len(cfg.ip_configuration) :
                    ConfiguredEntry(Val(a.ipConfigs)[i], cfg.ip_configuration[i])
          ELSE a.ipConfigs = b.ipConfigs
       /\ a.nsg = b.nsg

\* C9: the payload networkInterfaceUpdate sends holds, for each of dns_servers,
\* enable_ip_forwarding, ip_configuration and tags, the configured value when
\* the attribute has changed and otherwise the value the remote NIC holds while
\* the update has the lock; the network security group is the remote one.
C9_UpdateIsMerge ==
    [][\A p \in Procs :
        (op[p] = "NicUpdate" /\ sent[p] = None /\ sent'[p] # None)
        => LET n == Val(NetworkInterfaceID(d[p].id)).Name
               x == Val(sent'[p])
           IN /\ remote[n] # None
              /\ MergeOf(Val(remote[n]), x.payload, x.chg, x.cfg)]_vars

\* an update that changed only the tags went through: new tags, DNS servers as they were
C9_Witness ==
    \E p \in Procs :
        /\ op[p] = "NicUpdate" /\ pc[p] = "done" /\ err[p] = "nil" /\ sent[p] # None
        /\ Val(sent[p]).chg = {"tags"}
        /\ remote["nic1"] # None
        /\ Val(remote["nic1"]).tags = "t1"
        /\ Val(Val(remote["nic1"]).props).dns = ExistingDns
        /\ Val(Val(remote["nic1"]).props).ipfwd = Some(FALSE)


\* step of goroutine p that is a whole association Read
ReadStep(p) == pc[p] = "idle" /\ op'[p] = "AssociationRead"

\* the ID the Read that has just returned was handed
ReadId == log'[Len(log')].d.id

\* the Read has cleared the resource ID and returned no error
ReadCleared(p) == d'[p].id = <<>> /\ err'[p] = "nil"

\* the Read has kept the resource ID and set the three fields from the ID and the NIC read
ReadKept(p, t) ==
    /\ err'[p] = "nil"
    /\ d'[p].id = ReadId
    /\ d'[p].backend_address_pool_id = t.pool
    /\ d'[p].ip_configuration_name = t.cfg
    /\ d'[p].network_interface_id = t.nic

\* the Read has returned an error and left the resource data as handed
ReadFailed(p) == err'[p] # "nil" /\ d'[p] = StateOfId(ReadId)

\* the Read has taken no lock and changed no NIC
ReadOnly(p) == remote' = remote /\ lock' = lock /\ wrote'[p] = 0

\* C10 as stated: a Read of a well-formed ID whose Get is answered clears the
\* ID without error when the NIC is not found, the named IP configuration is
\* absent or the pool is not listed on it; otherwise it keeps the ID and sets
\* the fields; it never locks or writes.
C10_ReadAsStated ==
    [][\A p \in Procs :
        (ReadStep(p) /\ ParseAssociationId(ReadId).err = "nil" /\ failures' = failures)
        => LET t == ParseAssociationId(ReadId)
           IN /\ ReadOnly(p)
              /\ IF \/ remote[t.nic] = None
                    \/ ~HasConfig(remote[t.nic], t.cfg)
                    \/ t.pool \notin SeqRange(PoolsOn(remote[t.nic], t.cfg))
                 THEN ReadCleared(p)
                 ELSE ReadKept(p, t)]_vars

\* C10: a Read never locks or writes. Of a well-formed ID whose Get is
\* answered it clears the ID without error when the NIC is not found, when the
\* NIC's IP configuration list is there and holds no configuration of the
\* name, or when the pool is not listed on the named configuration; it returns
\* an error and keeps the ID, setting nothing, when the NIC's properties or its
\* IP configuration list are nil; otherwise it keeps the ID and sets the
\* fields. A malformed ID or a failed Get is an error that keeps the ID.
C10_ReadReconciles ==
    [][\A p \in Procs :
        ReadStep(p)
        => LET t == ParseAssociationId(ReadId)
           IN /\ ReadOnly(p)
              /\ IF t.err # "nil" \/ failures' # failures THEN ReadFailed(p)
                 ELSE IF remote[t.nic] = None THEN ReadCleared(p)
                 ELSE IF Val(remote[t.nic]).props = None THEN ReadFailed(p)
                 ELSE IF Val(Val(remote[t.nic]).props).ipConfigs = None THEN ReadFailed(p)
                 ELSE IF ~HasConfig(remote[t.nic], t.cfg) THEN ReadCleared(p)
                 ELSE IF t.pool \notin SeqRange(PoolsOn(remote[t.nic], t.cfg)) THEN ReadCleared(p)
                 ELSE ReadKept(p, t)]_vars

\* a Read of a NIC whose IP configuration list is nil has returned an error and kept its ID
C10_Witness ==
    \E p \in Procs :
        /\ op[p] = "AssociationRead" /\ pc[p] = "done"
        /\ err[p] = "ipConfigurationsNil"
        /\ d[p].id # <<>>
        /\ remote["nic1"] # None
        /\ Val(remote["nic1"]).props # None
        /\ Val(Val(remote["nic1"]).props).ipConfigs = None


\* C11: when the Get answers not-found, networkInterfaceRead clears the ID and
\* returns no error, and networkInterfaceDelete clears the ID, returns no
\* error and issues no Delete; a delete that runs after a delete of the same
\* NIC has succeeded changes nothing remote and, its Get answered, succeeds.
C11_GoneIsIdempotent ==
    [][\A p \in Procs :
        /\ (pc[p] = "idle" /\ op'[p] = "NicRead" /\ failures' = failures
                /\ NetworkInterfaceID(log'[Len(log')].d.id) # None
                /\ remote[Val(NetworkInterfaceID(log'[Len(log')].d.id)).Name] = None)
           => (pc'[p] = "done" /\ err'[p] = "nil" /\ d'[p].id = <<>> /\ remote' = remote)
        /\ (op[p] = "NicDelete" /\ pc[p] = "get" /\ pc'[p] # "get" /\ failures' = failures
                /\ remote[Val(NetworkInterfaceID(d[p].id)).Name] = None)
           => (pc'[p] = "done" /\ err'[p] = "nil" /\ d'[p].id = <<>>
                 /\ wrote'[p] = 0 /\ remote' = remote)
        /\ (op[p] = "NicDelete" /\ pc[p] # "done"
                /\ \E q \in Procs \ {p} : op[q] = "NicDelete" /\ pc[q] = "done" /\ err[q] = "nil")
           => /\ remote' = remote
              /\ (pc'[p] = "done" /\ failures' = failures) => (err'[p] = "nil" /\ wrote'[p] = 0)]_vars

\* two deletes of a NIC that existed have both succeeded; one of them issued the Delete
C11_Witness ==
    /\ \A p \in Procs : op[p] = "NicDelete" /\ pc[p] = "done" /\ err[p] = "nil"
    /\ init0["nic1"] # None
    /\ remote["nic1"] = None
    /\ \E p \in Procs : wrote[p] = 1
    /\ \E p \in Procs : wrote[p] = 0 /\ d[p].id = <<>>


\* C17: a handler that has returned, with success or with any error, holds no
\* lock: neither a NIC's nor a subnet's or virtual network's taken through
\* lockingDetails; so when all handlers have returned every lock is free.
C17_LocksReleased ==
    /\ \A p \in Procs : pc[p] \in {"idle", "done"} => \A k \in LockNames : lock[k] # p
    /\ AllDone => \A k \in LockNames : lock[k] = NoProc

\* a networkInterfaceCreate whose CreateOrUpdate failed, and an association delete that
\* found no NIC, have returned their errors, and every lock is free
C17_Witness ==
    /\ \E p \in Procs : op[p] = "NicCreate" /\ pc[p] = "done" /\ err[p] = "createOrUpdate" /\ wrote[p] = 1
    /\ \E p \in Procs : op[p] = "AssociationDelete" /\ pc[p] = "done" /\ err[p] = "notFound"
    /\ \A k \in LockNames : lock[k] = NoProc


\* NIC object o cannot be reconciled with an association on IP configuration c: it is
\* not there, its properties or its IP configuration list are nil, it has no IP
\* configuration of that name, or that IP configuration's properties are nil
Unreconcilable(o, c) ==
    IF o = None THEN TRUE
    ELSE IF Val(o).props = None THEN TRUE
    ELSE IF Val(Val(o).props).ipConfigs = None THEN TRUE
    ELSE LET f == FindNetworkInterfaceIPConfiguration(Val(Val(o).props).ipConfigs, c)
         IN IF f = None THEN TRUE ELSE Val(f).props = None

\* the IP configuration the running association create or delete p is about
TargetCfg(p) ==
    IF op[p] = "AssociationCreate" THEN d[p].ip_configuration_name ELSE DeleteTarget(p).cfg

\* C18: an association create or delete whose Get is answered with a NIC that
\* cannot be reconciled (or with not-found) returns an error, has issued no
\* CreateOrUpdate, and leaves the remote NIC and the resource ID as they were.
C18_FailsWithoutSideEffects ==
    [][\A p \in Procs :
        (op[p] \in {"AssociationCreate", "AssociationDelete"}
            /\ pc[p] = "get" /\ pc'[p] # "get" /\ failures' = failures
            /\ Unreconcilable(remote[NicOf(p)], TargetCfg(p)))
        => /\ pc'[p] = "done"
           /\ err'[p] # "nil"
           /\ wrote'[p] = 0
           /\ remote' = remote
           /\ d'[p].id = d[p].id]_vars

\* an association delete and an association create have failed on an IP configuration
\* whose properties are nil; the IDs are as they were and nothing was written
C18_Witness ==
    \E p, q \in Procs :
        /\ op[p] = "AssociationDelete" /\ pc[p] = "done" /\ err[p] = "ipConfigurationPropertiesNil"
        /\ op[q] = "AssociationCreate" /\ pc[q] = "done" /\ err[q] = "ipConfigurationPropertiesNil"
        /\ d[p].id # <<>> /\ d[q].id = <<>>
        /\ wrote[p] = 0 /\ wrote[q] = 0
        /\ remote = init0


\* the number of "|" in an ID
Bars(id) == Cardinality({ i \in DOMAIN id : id[i] = "|" })

\* the ID the handler that goroutine p enters in this step is handed
HandedId(p) == IF pc'[p] = "done" THEN log'[Len(log')].d.id ELSE d'[p].id

\* C19: the ID an association create leaves set is
\* {networkInterfaceId}/ipConfigurations/{ipConfigurationName}|{backendAddressPoolId},
\* and from it Read and Delete recover the NIC, the IP configuration name and the
\* pool the create was given; Read and Delete answer an ID that does not split
\* on "|" into exactly two parts with the format error, touching neither lock
\* nor remote.
C19_IdFormat ==
    [][\A p \in Procs :
        /\ (op[p] = "AssociationCreate" /\ pc[p] = "read" /\ pc'[p] = "done" /\ d'[p].id # <<>>)
           => /\ d'[p].id = <<d[p].network_interface_id, "/ipConfigurations/",
                              d[p].ip_configuration_name, "|", d[p].backend_address_pool_id>>
              /\ ParseAssociationId(d'[p].id) =
                    [err |-> "nil", nic |-> d[p].network_interface_id,
                     cfg |-> d[p].ip_configuration_name, pool |-> d[p].backend_address_pool_id]
              /\ err'[p] = "nil" =>
                    /\ d'[p].network_interface_id = d[p].network_interface_id
                    /\ d'[p].ip_configuration_name = d[p].ip_configuration_name
                    /\ d'[p].backend_address_pool_id = d[p].backend_address_pool_id
        /\ (pc[p] = "idle" /\ op'[p] \in {"AssociationRead", "AssociationDelete"}
                /\ Bars(HandedId(p)) # 1)
           => /\ pc'[p] = "done"
              /\ err'[p] = "format"
              /\ lock' = lock
              /\ remote' = remote]_vars

\* a create has left its ID set, and a Delete was handed an ID with two "|"
C19_Witness ==
    \E p, q \in Procs :
        /\ op[p] = "AssociationCreate" /\ pc[p] = "done" /\ err[p] = "nil"
        /\ d[p].id = <<"nic1", "/ipConfigurations/", "c1", "|", "pB">>
        /\ op[q] = "AssociationDelete" /\ pc[q] = "done" /\ err[q] = "format"
        /\ Bars(d[q].id) = 2


\* what expandNetworkInterfaceIPConfigurations is to answer for the list in
ExpandError(in) ==
    IF \E i \in 1..Len(in) : in[i].private_ip_address_version = "IPv4" /\ in[i].subnet_id = ""
    THEN "subnetIdRequired"
    ELSE IF Len(in) > 1 /\ \A i \in 1..Len(in) : ~in[i].primary
    THEN "primaryRequired"
    ELSE "nil"

\* list out holds the entries of in by name, in order
SameNames(in, out) ==
    /\ Len(out) = Len(in)
    /\ \A i \in 1..Len(in) : out[i].name = in[i].name

\* C20: for the ip_configuration list a NIC create or update expands, the
\* function answers the subnet error if an IPv4 entry has no subnet, else the
\* primary error if there are several entries and none is primary, else a list
\* of the same length and order with the names kept; when it answers an error
\* the handler returns an error and issues no CreateOrUpdate, and when the
\* handler goes on, the payload it has built holds that list.
C20_ExpandValidates ==
    [][\A p \in Procs :
        (given[p] = None /\ given'[p] # None /\ "ip_configuration" \in Val(given'[p]).chg)
        => LET in == Val(given'[p]).cfg.ip_configuration
               r == expandNetworkInterfaceIPConfigurations(in)
           IN /\ r.err = ExpandError(in)
              /\ r.err = "nil" => SameNames(in, r.ipConfigs)
              /\ r.err # "nil" =>
                    /\ pc'[p] = "done" /\ err'[p] # "nil"
                    /\ wrote'[p] = 0
                    /\ remote' = remote
              /\ pc'[p] \in {"lockDetails", "put"} =>
                    /\ r.err = "nil"
                    /\ SameNames(in, Val(Val((IF op[p] = "NicCreate" THEN Val(read'[p])
                                              ELSE Val(sent'[p]).payload).props).ipConfigs))]_vars

\* an update given two IP configurations of which none is primary has returned the error
\* of the expansion, and an update given two of which one is primary is about to send both
C20_Witness ==
    \E p, q \in Procs :
        /\ op[p] = "NicUpdate" /\ pc[p] = "done" /\ err[p] = "expanding" /\ wrote[p] = 0
        /\ given[p] # None
        /\ ExpandError(Val(given[p]).cfg.ip_configuration) = "primaryRequired"
        /\ op[q] = "NicUpdate" /\ pc[q] = "put"
        /\ "ip_configuration" \in Val(given[q]).chg
        /\ Len(Val(given[q]).cfg.ip_configuration) = 2

(***************************************************************************)
(* C22: no duplicate associations                                          *)
(***************************************************************************)
NoDup(s) == \A i, j \in 1..Len(s) : s[i] = s[j] => i = j

\* no IP configuration of NIC object o lists a backend pool twice
NoPoolTwice(o) == \A c \in CfgNames : NoDup(PoolsOn(o, c))

\* both handlers were association creates of the same pool on the same IP configuration
SameCreateTwice ==
    /\ AllDone /\ Len(log) = 2
    /\ log[1].op = "AssociationCreate" /\ log[2].op = "AssociationCreate"
    /\ log[1].d = log[2].d

\* C22: when no IP configuration of the NIC lists a pool twice at the start,
\* none does in any state the handlers reach; and of two association creates
\* of the same pool on the same IP configuration, run concurrently against a
\* NIC that can be reconciled and does not list the pool, with every remote
\* call succeeding, one returns success and the other the import-as-exists error.
C22_NoDuplicateAssociations ==
    /\ (\A n \in NicNames : init0[n] # None => NoPoolTwice(init0[n]))
            => \A n \in NicNames : NoPoolTwice(remote[n])
    /\ LET n == log[1].d.network_interface_id
           c == log[1].d.ip_configuration_name
           b == log[1].d.backend_address_pool_id
       IN (/\ SameCreateTwice
           /\ failures = 0
           /\ ~Unreconcilable(init0[n], c)
           /\ b \notin SeqRange(PoolsOn(init0[n], c)))
          => /\ log[1].err = "nil"
             /\ log[2].err = "importAsExists"
             /\ log[1].id # <<>> /\ log[2].id = <<>>

\* two creates of pB on c1 have returned, the first with success and the second
\* with the import-as-exists error, and c1 lists pB once
C22_Witness ==
    /\ SameCreateTwice
    /\ log[1].d.backend_address_pool_id = "pB"
    /\ log[1].err = "nil" /\ log[2].err = "importAsExists"
    /\ NoPoolTwice(init0["nic1"])
    /\ "pA" \in SeqRange(PoolsOn(init0["nic1"], "c1"))
    /\ PoolsOn(remote["nic1"], "c1") = PoolsOn(init0["nic1"], "c1") \o <<"pB">>

(***************************************************************************)
(* C23: create then delete is a round trip                                 *)
(***************************************************************************)
\* an association create returned success and then the delete of the same
\* association returned success
CreateThenDelete ==
    /\ AllDone /\ Len(log) = 2
    /\ log[1].op = "AssociationCreate" /\ log[1].err = "nil"
    /\ log[2].op = "AssociationDelete" /\ log[2].err = "nil"
    /\ ParseAssociationId(log[2].d.id).err = "nil"
    /\ ParseAssociationId(log[2].d.id).nic = log[1].d.network_interface_id
    /\ EntryCfg(log[2]) = EntryCfg(log[1])
    /\ EntryPool(log[2]) = EntryPool(log[1])

\* the step is one of the association delete p, taken with no remote failure
DeleteStep(p, at) ==
    /\ op[p] = "AssociationDelete" /\ pc[p] = at /\ pc'[p] # at
    /\ failures' = failures

\* C23: after a successful association create of pool P followed by a
\* successful delete of the same association the IP configuration lists the
\* pool IDs it listed before the create, in the same order; and a delete whose
\* pool the IP configuration does not list goes through to its CreateOrUpdate,
\* returns success and leaves that list of pool IDs as it was.
C23_RoundTrip ==
    /\ [](CreateThenDelete =>
            LET n == log[1].d.network_interface_id
            IN PoolsOn(remote[n], EntryCfg(log[1])) = PoolsOn(init0[n], EntryCfg(log[1])))
    /\ [][\A p \in Procs :
            LET t == DeleteTarget(p)
            IN /\ (DeleteStep(p, "get") /\ ~Unreconcilable(remote[t.nic], t.cfg))
                    => pc'[p] = "put"
               /\ (DeleteStep(p, "put") /\ t.pool \notin SeqRange(PoolsOn(remote[t.nic], t.cfg)))
                    => /\ pc'[p] = "done" /\ err'[p] = "nil"
                       /\ PoolsOn(remote'[t.nic], t.cfg) = PoolsOn(remote[t.nic], t.cfg)]_vars

\* pB was associated with c1, which listed pA, and then dissociated again;
\* c1 lists what it listed at the start
C23_Witness ==
    /\ CreateThenDelete
    /\ EntryPool(log[1]) = "pB"
    /\ "pA" \in SeqRange(PoolsOn(init0["nic1"], "c1"))
    /\ PoolsOn(remote["nic1"], "c1") = PoolsOn(init0["nic1"], "c1")

(***************************************************************************)
(* C24: the resource ID is set only after the remote write has completed   *)
(***************************************************************************)
Creates == {"AssociationCreate", "NicCreate"}

\* the handler of p has returned; its deferred unlocks run or have run
Returned(p) == pc[p] \in {"unlock", "done"}

\* C24: in an association create and in a NIC create, a step in which
\* CreateOrUpdate or its wait fails returns an error; a create that returns
\* from any step before its final Read returns an error with the resource ID
\* unset; the ID becomes set only in the step after a CreateOrUpdate whose
\* wait succeeded; and an association create that returns success has the ID
\* it composed from its three inputs, with the pool listed on the IP
\* configuration of the remote NIC.
C24_IdAfterWrite ==
    [][\A p \in Procs :
        /\ (op[p] \in Creates /\ pc[p] = "put" /\ pc'[p] # "put" /\ failures' # failures)
                => Returned(p)'
        /\ (op'[p] \in Creates /\ pc[p] \notin {"read", "unlock", "done"} /\ Returned(p)')
                => err'[p] # "nil" /\ d'[p].id = <<>>
        /\ (op'[p] \in Creates /\ d'[p].id # <<>> /\ d[p].id = <<>>)
                => /\ pc[p] = "read" /\ wrote[p] = 1
                   /\ remote[NicOf(p)] # None
        /\ (op[p] = "AssociationCreate" /\ pc[p] = "read" /\ pc'[p] = "done" /\ err'[p] = "nil")
                => /\ d'[p].id = FormatAssociationId(d[p].network_interface_id,
                                                     d[p].ip_configuration_name,
                                                     d[p].backend_address_pool_id)
                   /\ d[p].backend_address_pool_id
                        \in SeqRange(PoolsOn(remote'[d[p].network_interface_id],
                                             d[p].ip_configuration_name))]_vars

\* one create has returned with its ID set after its write, another has
\* returned the error of a failed wait with its ID unset
C24_Witness ==
    \E p, q \in Procs :
        /\ pc[p] = "done" /\ op[p] = "AssociationCreate" /\ err[p] = "nil"
        /\ d[p].id # <<>> /\ wrote[p] = 1
        /\ pc[q] = "done" /\ op[q] \in Creates /\ err[q] = "waitForCompletion"
        /\ d[q].id = <<>> /\ wrote[q] = 1

(***************************************************************************)
(* C25: the importer rejects malformed IDs                                 *)
(***************************************************************************)
\* the parts of an ID before and after the first "|"; nothing follows when there is none
BeforeBar(id) == Split(id)[1]
AfterBar(id) == IF Len(Split(id)) < 2 THEN None ELSE Some(Split(id)[2])

\* C25: the importer never faults; it returns nil only when the part of the
\* ID before "|" parses as a NIC IP-configuration ID and the part after it as
\* a backend address pool ID, and an error whenever the ID has no "|" or
\* either part fails to parse.
C25_ImporterRejects ==
    \A p \in Procs :
        (pc[p] = "done" /\ op[p] = "AssociationImport") =>
            LET id == log[CHOOSE i \in 1..Len(log) : log[i].proc = p].d.id
                wellFormed == /\ NetworkInterfaceIpConfigurationID(BeforeBar(id)) # None
                              /\ AfterBar(id) # None
                              /\ LoadBalancerBackendAddressPoolID(Val(AfterBar(id))) # None
            IN /\ err[p] # "panic"
               /\ err[p] = "nil" => wellFormed
               /\ ~wellFormed => err[p] = "parse"

(***************************************************************************)
(* C26: networkInterfaceUpdate handles every remote NIC state              *)
(***************************************************************************)
\* C26: a networkInterfaceUpdate never faults: whatever NIC its Get is
\* answered with, it returns an error value or goes on to send a payload; and
\* when the Get fails or the NIC has nil properties it returns an error
\* without having issued CreateOrUpdate.
C26_UpdateNeverFaults ==
    \A p \in Procs :
        (op[p] = "NicUpdate" /\ pc[p] = "done") =>
            /\ err[p] # "panic"
            /\ err[p] \in {"retrieving", "propertiesNil"} => wrote[p] = 0

(***************************************************************************)
(* C21: deadlock freedom and completion                                    *)
(***************************************************************************)
NicHandlers == {"NicCreate", "NicUpdate", "NicDelete"}

\* the handler of p has been entered and has not returned all its locks
Started(p) == pc[p] \notin {"idle", "done"}

\* p waits in locks.ByName for the lock of its NIC
AwaitsNicLock(p) == pc[p] = "lock"

====
